---- MODULE Spec2Model ----
(***************************************************************************)
(* SCARA plotter: the realtime dispatcher scripts                          *)
(* (trajectory_sender_grid_3.py, trajectory_sender.py), the offline        *)
(* trajectory / motor-command generator (kinematic_part/IK3.py) and the    *)
(* point tests (scara_grid_test.py, scara_precision_tester.py).            *)
(***************************************************************************)
EXTENDS Integers, Sequences, FiniteSets, TLC

(***************************************************************************)
(* Bounds of the model.                                                    *)
(***************************************************************************)
\* Longest CSV file (number of command rows) a dispatch run streams.
MaxRows == 3
\* Most read_bit failures one run of the wait-for-M3 loop suffers.
MaxReadErrors == 2
\* Longest target_list (number of waypoints) the generator is given.
MaxTargets == 2
\* Most ticks of a travel move whose profile is evaluated on its own.
MaxTicks == 16
\* The points at which the kinematics are evaluated reach this many cells
\* of Pitch from the origin along each axis.
MaxCells == 16

(***************************************************************************)
(* Dispatcher state.                                                       *)
(***************************************************************************)
VARIABLES
  script,      \* which script runs: "grid3" or "sender"
  pc,          \* its position: "wait", "sleep", "stream", "final", "exit",
               \*   "crash" (unhandled exception), "killed" (KeyboardInterrupt)
  rows,        \* the rows csv.DictReader yields, in file order
  i,           \* enumerate() index of the row the loop handles next (from 0)
  m3_status,   \* last reply of mc.read_bit(M3); <<>> before the first reply
  m3_enabled,  \* trajectory_sender.py: the "trigger started" flag
  plcM3,       \* the controller's bit M3
  plcM4,       \* the controller's bit M4 (pen)
  plcD100,     \* the controller's registers D100..D106; <<>> before a write
  log,         \* every write call issued, in order, failed calls included
  errorRow,    \* the row index printed by "Error at row {i}"; NoRow if none
  readErrors   \* how often "Error reading M3" was printed

dvars == <<script, pc, rows, i, m3_status, m3_enabled, plcM3, plcM4, plcD100,
           log, errorRow, readErrors>>

(***************************************************************************)
(* Generator state (kinematic_part/IK3.py, sections 5 and 6).              *)
(***************************************************************************)
VARIABLES
  gpc,              \* position of the script: "idle" (not run), "targets"
                    \*   (the loop over target_list), then "saved" or
                    \*   "unsaved" (commands generated, CSV written or not)
  target_list,      \* the waypoints, [x, y, pen], in input order
  tnext,            \* enumerate() index of the target handled next (from 0)
  current,          \* <<current_x, current_y>>
  full_trajectory,  \* the samples <<x, y, pen>> appended so far
  commands          \* the rows of the CSV table

gvars == <<gpc, target_list, tnext, current, full_trajectory, commands>>

(***************************************************************************)
(* A single call of one of the functions of the scripts, for the           *)
(* properties of the functions themselves.                                 *)
(***************************************************************************)
VARIABLES
  callee,   \* the function called; "none" when the scripts run as a whole
  args,     \* its arguments, a record
  result,   \* what it returned; <<>> until it returns
  returned  \* whether it has returned

cvars == <<callee, args, result, returned>>

vars == <<dvars, gvars, cvars>>

NoRow == 0 - 1

\* The command rows a CSV file may hold.  Hz columns are kept in tenths of a
\* hertz: IK3.py writes them with one decimal, round(hz, 1).
MotionValues ==
  { [J1_Pos |-> 0, J1_Hz |-> 0, J2_Pos |-> 0, J2_Hz |-> 0],
    [J1_Pos |-> 5, J1_Hz |-> 2505, J2_Pos |-> 0 - 3, J2_Hz |-> 1500] }

RowSet ==
  { [J1_Pos |-> m.J1_Pos, J1_Hz |-> m.J1_Hz, J2_Pos |-> m.J2_Pos,
     J2_Hz |-> m.J2_Hz, Pen |-> p] : m \in MotionValues, p \in {0, 1} }

RowLists == UNION { [1..n -> RowSet] : n \in 0..MaxRows }

\* int(float(s)) of a non-negative decimal string, given in tenths.
IntOfFloat(tenths) == tenths \div 10

\* The row at enumerate() index idx.
RowAt(rws, idx) == rws[idx + 1]

Last(s) == s[Len(s)]

(***************************************************************************)
(* trajectory_sender_grid_3.py                                             *)
(***************************************************************************)
\* data_list of the D100 batch write.
Grid3Data(row) ==
  <<row.J1_Pos, IntOfFloat(row.J1_Hz), row.J2_Pos, IntOfFloat(row.J2_Hz)>>

\* on_off of the M4 write.
Grid3Pen(row) == row.Pen

\* "m3_status and m3_status[0] == 1" without the comparison: any reply passes.
EnableObserved_AnyReply(status) == status # <<>>

\* if m3_status and m3_status[0] == 1
EnableObserved(status) == status # <<>> /\ status[1] = 1

\* The except branch leaving the wait loop for the row loop.
OnReadError_Proceed == "stream"

\* The except branch giving up: straight to the last write.
OnReadError_Abort == "final"

\* except Exception in the wait loop: print, sleep 0.5 s, poll again.
OnReadError == "sleep"

\* One poll of the wait-for-M3 loop.
PollEnable ==
  /\ script = "grid3"
  /\ pc = "wait"
  /\ \/ /\ m3_status' = <<plcM3>>
        /\ pc' = IF EnableObserved(m3_status') THEN "stream" ELSE "sleep"
        /\ UNCHANGED readErrors
     \/ /\ readErrors < MaxReadErrors
        /\ readErrors' = readErrors + 1
        /\ pc' = OnReadError
        /\ UNCHANGED m3_status
  /\ UNCHANGED <<script, rows, i, m3_enabled, plcM3, plcM4, plcD100, log,
                 errorRow>>
  /\ UNCHANGED <<gvars, cvars>>

\* time.sleep(0.1) / time.sleep(0.5) is over: back to the top of the loop.
WakeUp ==
  /\ script = "grid3"
  /\ pc = "sleep"
  /\ pc' = "wait"
  /\ UNCHANGED <<script, rows, i, m3_status, m3_enabled, plcM3, plcM4,
                 plcD100, log, errorRow, readErrors>>
  /\ UNCHANGED <<gvars, cvars>>

RegEntry(idx, data, ok) == [dev |-> "D100", row |-> idx, val |-> data, ok |-> ok]

BitEntry(dev, idx, v, ok) == [dev |-> dev, row |-> idx, val |-> <<v>>, ok |-> ok]

\* The write calls of one iteration with the M4 write made only when the pen
\* value differs from the previous row's.
Grid3RowWrites_OnChange(rws, idx, outcome) ==
  LET row == RowAt(rws, idx)
      changed == idx = 0 \/ Grid3Pen(RowAt(rws, idx - 1)) # Grid3Pen(row)
  IN  IF outcome = "regfail"
      THEN <<RegEntry(idx, Grid3Data(row), FALSE)>>
      ELSE IF ~changed
      THEN <<RegEntry(idx, Grid3Data(row), TRUE)>>
      ELSE <<RegEntry(idx, Grid3Data(row), TRUE),
             BitEntry("M4", idx, Grid3Pen(row), outcome = "ok")>>

\* The write calls one iteration of the row loop issues: the D100 batch, then,
\* unless that raised, the M4 bit.
Grid3RowWrites(rws, idx, outcome) ==
  LET row == RowAt(rws, idx)
  IN  IF outcome = "regfail"
      THEN <<RegEntry(idx, Grid3Data(row), FALSE)>>
      ELSE <<RegEntry(idx, Grid3Data(row), TRUE),
             BitEntry("M4", idx, Grid3Pen(row), outcome = "ok")>>

\* The except branch going on with the next row.
OnWriteError_Continue(idx) == [pc |-> "stream", i |-> idx + 1]

\* The except branch ending the script at once.
OnWriteError_Exit(idx) == [pc |-> "exit", i |-> idx]

\* except Exception in the row loop: print "Error at row {i}", break.
OnWriteError(idx) == [pc |-> "final", i |-> idx]

\* The loop index moving on by two.
NextIndex_Skip(idx) == idx + 2

\* enumerate(): the next iteration's index.
NextIndex(idx) == idx + 1

\* Registers and bits after the successful writes among es, in order.
RECURSIVE ApplyWrites(_, _)
ApplyWrites(hw, es) ==
  IF es = <<>> THEN hw
  ELSE LET e == Head(es)
           hw2 == IF ~e.ok THEN hw
                  ELSE IF e.dev = "D100" THEN [hw EXCEPT !.D100 = e.val]
                  ELSE IF e.dev = "M4" THEN [hw EXCEPT !.M4 = e.val[1]]
                  ELSE [hw EXCEPT !.M3 = e.val[1]]
       IN  ApplyWrites(hw2, Tail(es))

Hardware == [D100 |-> plcD100, M4 |-> plcM4, M3 |-> plcM3]

\* One iteration of the row loop of trajectory_sender_grid_3.py.
Grid3Row ==
  /\ script = "grid3"
  /\ pc = "stream"
  /\ i < Len(rows)
  /\ \E outcome \in {"ok", "regfail", "bitfail"} :
       LET es == Grid3RowWrites(rows, i, outcome)
           hw == ApplyWrites(Hardware, es)
           nxt == IF outcome = "ok" THEN [pc |-> "stream", i |-> NextIndex(i)]
                  ELSE OnWriteError(i)
       IN  /\ log' = log \o es
           /\ plcD100' = hw.D100
           /\ plcM4' = hw.M4
           /\ pc' = nxt.pc
           /\ i' = nxt.i
           /\ errorRow' = IF outcome = "ok" THEN errorRow ELSE i
  /\ UNCHANGED <<script, rows, m3_status, m3_enabled, plcM3, readErrors>>
  /\ UNCHANGED <<gvars, cvars>>

\* The for loop finds no further row.
EndOfRows ==
  /\ pc = "stream"
  /\ i >= Len(rows)
  /\ pc' = "final"
  /\ UNCHANGED <<script, rows, i, m3_status, m3_enabled, plcM3, plcM4,
                 plcD100, log, errorRow, readErrors>>
  /\ UNCHANGED <<gvars, cvars>>

\* mc.write_bit(s, headdevice='M4', data_list=[0]) after the loop; an
\* exception here is not caught.
FinalM4Write ==
  /\ script = "grid3"
  /\ pc = "final"
  /\ \E ok \in BOOLEAN :
       /\ log' = Append(log, BitEntry("M4", NoRow, 0, ok))
       /\ plcM4' = IF ok THEN 0 ELSE plcM4
       /\ pc' = IF ok THEN "exit" ELSE "crash"
  /\ UNCHANGED <<script, rows, i, m3_status, m3_enabled, plcM3, plcD100,
                 errorRow, readErrors>>
  /\ UNCHANGED <<gvars, cvars>>

\* The operator (or the PLC program) switches M3.
PlcOperator ==
  /\ pc \in {"wait", "sleep", "stream"}
  /\ plcM3' = 1 - plcM3
  /\ UNCHANGED <<script, pc, rows, i, m3_status, m3_enabled, plcM4, plcD100,
                 log, errorRow, readErrors>>
  /\ UNCHANGED <<gvars, cvars>>

\* Ctrl-C: KeyboardInterrupt is no Exception, so neither handler catches it
\* and the script ends where it stands.
KeyboardInterrupt ==
  /\ pc \in {"wait", "sleep", "stream", "final"}
  /\ pc' = "killed"
  /\ UNCHANGED <<script, rows, i, m3_status, m3_enabled, plcM3, plcM4,
                 plcD100, log, errorRow, readErrors>>
  /\ UNCHANGED <<gvars, cvars>>

(***************************************************************************)
(* trajectory_sender.py                                                    *)
(***************************************************************************)
\* data_list of the D100 batch write: J2 goes to D100/D102, J1 to D104/D106.
SenderData(row) ==
  <<row.J2_Pos, IntOfFloat(row.J2_Hz), row.J1_Pos, IntOfFloat(row.J1_Hz)>>

\* if d100_value != 0 or d104_value != 0
Movement(row) == SenderData(row)[1] # 0 \/ SenderData(row)[3] # 0

\* if m3_status and m3_status[0] == 0
TriggerIdle(status) == status # <<>> /\ status[1] = 0

\* The write calls of an iteration that sets M3 for every row that moves,
\* whatever read_bit(M3) replies.
SenderRowWrites_AnyReply(rws, idx, m3, outcome) ==
  LET row == RowAt(rws, idx)
      trig == IF Movement(row)
              THEN <<BitEntry("M3", idx, 1, outcome # "trigfail")>>
              ELSE <<>>
  IN  IF outcome = "readfail" THEN <<>>
      ELSE IF outcome = "trigfail" THEN trig
      ELSE trig \o <<RegEntry(idx, SenderData(row), outcome = "ok")>>

\* The write calls one iteration of the row loop of trajectory_sender.py
\* issues when read_bit(M3) replies m3: M3 := 1 if the row moves and M3 reads
\* 0, then the D100 batch.
SenderRowWrites(rws, idx, m3, outcome) ==
  LET row == RowAt(rws, idx)
      trig == IF Movement(row) /\ TriggerIdle(<<m3>>)
              THEN <<BitEntry("M3", idx, 1, outcome # "trigfail")>>
              ELSE <<>>
  IN  IF outcome = "readfail" THEN <<>>
      ELSE IF outcome = "trigfail" THEN trig
      ELSE trig \o <<RegEntry(idx, SenderData(row), outcome = "ok")>>

\* One iteration of the row loop of trajectory_sender.py.
SenderRow ==
  /\ script = "sender"
  /\ pc = "stream"
  /\ i < Len(rows)
  /\ \E outcome \in {"ok", "readfail", "trigfail", "regfail"} :
       LET row == RowAt(rows, i)
           reads == Movement(row)
           es == SenderRowWrites(rows, i, plcM3, outcome)
           hw == ApplyWrites(Hardware, es)
           nxt == IF outcome = "ok" THEN [pc |-> "stream", i |-> NextIndex(i)]
                  ELSE OnWriteError(i)
       IN  /\ outcome = "readfail" => reads
           /\ outcome = "trigfail" => reads /\ TriggerIdle(<<plcM3>>)
           /\ m3_status' = IF reads /\ outcome # "readfail"
                           THEN <<plcM3>> ELSE m3_status
           /\ m3_enabled' = (m3_enabled \/
                             (reads /\ TriggerIdle(<<plcM3>>)
                                /\ outcome \in {"ok", "regfail"}))
           /\ log' = log \o es
           /\ plcD100' = hw.D100
           /\ plcM3' = hw.M3
           /\ pc' = nxt.pc
           /\ i' = nxt.i
           /\ errorRow' = IF outcome = "ok" THEN errorRow ELSE i
  /\ UNCHANGED <<script, rows, plcM4, readErrors>>
  /\ UNCHANGED <<gvars, cvars>>

\* mc.write_bit(s, headdevice='M3', data_list=[0]) after the loop; an
\* exception here is not caught.
FinalM3Write ==
  /\ script = "sender"
  /\ pc = "final"
  /\ \E ok \in BOOLEAN :
       /\ log' = Append(log, BitEntry("M3", NoRow, 0, ok))
       /\ plcM3' = IF ok THEN 0 ELSE plcM3
       /\ pc' = IF ok THEN "exit" ELSE "crash"
  /\ UNCHANGED <<script, rows, i, m3_status, m3_enabled, plcM4, plcD100,
                 errorRow, readErrors>>
  /\ UNCHANGED <<gvars, cvars>>

(***************************************************************************)
(* kinematic_part/IK3.py: settings and arithmetic.                         *)
(*                                                                         *)
(* The script computes in binary floating point.  Here a length is an      *)
(* integer number of 1/CoordScale mm (half a micrometre), an angle an      *)
(* integer number of 1/AngleTurn turns, a time an integer number of ms and *)
(* a fraction in [0, 1] an integer number of 1/One.  Squares of lengths do *)
(* not fit a machine integer and are kept as two-digit numbers in base     *)
(* WBase, so that the subtractions of inverse_kinematics are exact.        *)
(* Results agree with the script's up to the rounding of the last unit.    *)
(***************************************************************************)
L1 == 155
L2 == 160
\* DT = 0.02 s, in ms
DT == 20
STEPS_PER_REV == 200
MICROSTEPS == 32
GEAR_RATIO_J1 == 2
\* GEAR_RATIO_J2 = 2.5, in tenths
GEAR_RATIO_J2_X10 == 25
TRAVEL_SPEED == 50
DRAW_SPEED == 30
PEN_DOWN_DELAY == 2
\* the 0.2 s of "wait_steps = int(0.2 / DT)", in ms
PEN_UP_DELAY_MS == 200
HOME_X == 0
HOME_Y == L1 + L2

CoordScale == 2 * 1000
AngleTurn == 64 * 1000 * 1000
HalfTurn == AngleTurn \div 2
QuarterTurn == AngleTurn \div 4
One == 2^20
WBase == 2^20

\* A length of mm millimetres.
MM(mm) == mm * CoordScale

\* 0.001 mm, the threshold of "dist < 0.001"
EpsUnits == CoordScale \div 1000

\* Steps per turn of each joint: STEPS_PER_RAD_J* is this over 2*pi.
STEPS_PER_TURN_J1 == STEPS_PER_REV * MICROSTEPS * GEAR_RATIO_J1
STEPS_PER_TURN_J2 == (STEPS_PER_REV * MICROSTEPS * GEAR_RATIO_J2_X10) \div 10

Abs(n) == IF n < 0 THEN 0 - n ELSE n

Max(a, b) == IF a >= b THEN a ELSE b

\* a / b rounded toward zero, as int() does (b > 0).
TruncDiv(a, b) == IF a >= 0 THEN a \div b ELSE 0 - ((0 - a) \div b)

\* a / b rounded to the nearest integer (b > 0).
RoundDiv(a, b) ==
  IF a >= 0 THEN (a + b \div 2) \div b ELSE 0 - ((b \div 2 - a) \div b)

\* a * b / c rounded, for 0 <= b <= c < 2^15.
MulDiv(a, b, c) ==
  LET q == Abs(a) \div c
      r == Abs(a) % c
      v == q * b + RoundDiv(r * b, c)
  IN  IF a < 0 THEN 0 - v ELSE v

\* Wide integers [hi, lo]: the value hi * WBase + lo with 0 <= lo < WBase.
WNorm(hi, lo) == [hi |-> hi + lo \div WBase, lo |-> lo % WBase]

WAdd(p, q) == WNorm(p.hi + q.hi, p.lo + q.lo)

WSub(p, q) == WNorm(p.hi - q.hi, p.lo - q.lo)

WNegative(p) == p.hi < 0

WZero(p) == p.hi = 0 /\ p.lo = 0

\* a * b as a wide integer, |a| < 2^21 and |b| < 2^21.
WMul(a, b) ==
  LET ah == Abs(a) \div 1024
      al == Abs(a) % 1024
      bh == Abs(b) \div 1024
      bl == Abs(b) % 1024
      m == ah * bl + al * bh
      v == WNorm(ah * bh + m \div 1024, (m % 1024) * 1024 + al * bl)
  IN  IF (a < 0) = (b < 0) THEN v ELSE WNorm(0 - v.hi, 0 - v.lo)

\* x ** 2 as a wide integer.
WSq(x) == WMul(x, x)

\* The integer part of p / 2^k for 0 <= k <= 40.
WShift(p, k) ==
  IF k <= 20 THEN p.hi * 2^(20 - k) + p.lo \div 2^k ELSE p.hi \div 2^(k - 20)

\* a * f / One rounded, for |a| < 2^21 and a fraction |f| <= One.
FracMul(a, f) == WShift(WAdd(WMul(a, f), [hi |-> 0, lo |-> One \div 2]), 20)

RECURSIVE WIsqrtIn(_, _, _)
WIsqrtIn(p, lo, hi) ==
  IF hi - lo <= 1 THEN lo
  ELSE LET mid == (lo + hi) \div 2
       IN  IF WNegative(WSub(p, WSq(mid))) THEN WIsqrtIn(p, lo, mid)
           ELSE WIsqrtIn(p, mid, hi)

RECURSIVE WSqrtIn(_, _)
\* math.sqrt(p) for p >= 0 as a floating number [m, e], the value m * 2^e,
\* with m of 20 bits: p is first scaled by a power of 4 into [2^38, 2^40).
WSqrtIn(p, e) ==
  IF WZero(p) THEN [m |-> 0, e |-> 0]
  ELSE IF p.hi >= 2^20 THEN WSqrtIn(WNorm(p.hi \div 4, (p.hi % 4) * (WBase \div 4) + p.lo \div 4), e + 1)
  ELSE IF p.hi < 2^18 THEN WSqrtIn(WNorm(4 * p.hi, 4 * p.lo), e - 1)
  ELSE [m |-> WIsqrtIn(p, 0, WBase), e |-> e]

WSqrt(p) == WSqrtIn(p, 0)

\* The integer part of f * 2^k for a floating number f = [m, e] or a product
\* [m1 * m2, e1 + e2] of two, kept wide.
FInt(w, e) == IF e >= 0 THEN WShift(w, 0) * 2^e ELSE WShift(w, 0 - e)

RECURSIVE ShiftFor(_, _)
\* The least k with n / 2^k < limit.
ShiftFor(n, limit) == IF n < limit THEN 0 ELSE 1 + ShiftFor(n \div 2, limit)

\* The pair <<a, b>> scaled down by a power of two to magnitudes below 2^bits:
\* the direction of the vector is kept.
Shrink(a, b, bits) ==
  LET k == ShiftFor(Max(Abs(a), Abs(b)), 2^bits)
  IN  <<RoundDiv(a, 2^k), RoundDiv(b, 2^k)>>

RECURSIVE Grow(_, _, _)
\* The pair <<a, b>> scaled up by a power of two to a magnitude of 2^bits.
Grow(a, b, bits) ==
  IF Max(Abs(a), Abs(b)) >= 2^bits THEN <<a, b>> ELSE Grow(2 * a, 2 * b, bits)

\* atan(2^-k) for k = 0, 1, ... in angle units.
AtanTable ==
  <<8000000, 4722676, 2495332, 1266670, 635793, 318206, 159142, 79576, 39789,
    19894, 9947, 4974, 2487, 1243, 622, 311, 155, 78, 39, 19, 10, 5, 2, 1, 1>>

RECURSIVE Cordic(_, _, _, _)
\* The angle of the vector <<x, y>>, x > 0, added to acc: the vector is
\* turned onto the x axis by the angles of the table.
Cordic(x, y, k, acc) ==
  IF y = 0 \/ k >= Len(AtanTable) THEN acc
  ELSE IF y > 0
  THEN Cordic(x + y \div 2^k, y - x \div 2^k, k + 1, acc + AtanTable[k + 1])
  ELSE Cordic(x - y \div 2^k, y + x \div 2^k, k + 1, acc - AtanTable[k + 1])

\* math.atan2(s, c) in angle units, in (-HalfTurn, HalfTurn]; atan2(0, 0) = 0.
\* A zero s stands for +0.0: atan2(-0.0, c) with c < 0 is -pi in the script.
Atan2(s, c) ==
  IF s = 0 THEN (IF c >= 0 THEN 0 ELSE HalfTurn)
  ELSE IF c = 0 THEN (IF s > 0 THEN QuarterTurn ELSE 0 - QuarterTurn)
  ELSE LET v == Shrink(s, c, 28)
           w == Grow(v[1], v[2], 27)
           a == IF w[2] = 0 THEN QuarterTurn
                ELSE IF w[1] = 0 THEN 0
                ELSE Cordic(Abs(w[2]), Abs(w[1]), 0, 0)
           b == IF c > 0 THEN a ELSE HalfTurn - a
       IN  IF s > 0 THEN b ELSE 0 - b

(***************************************************************************)
(* kinematic_part/IK3.py: class ScaraRobot.                                *)
(***************************************************************************)
\* l1 ** 2 + l2 ** 2 and 2 * l1 * l2, in squared length units.
SumOfSquares == WAdd(WSq(MM(L1)), WSq(MM(L2)))

TwiceProduct == WSub(WSq(MM(L1 + L2)), SumOfSquares)

\* c2 > 1.0 and c2 < -1.0 for c2 = (r_sq - l1**2 - l2**2) / (2 * l1 * l2):
\* the point is farther than l1 + l2 or nearer than |l1 - l2|.
TooFar(x, y) ==
  WNegative(WSub(WSq(MM(L1 + L2)), WAdd(WSq(x), WSq(y))))

TooNear(x, y) ==
  WNegative(WSub(WAdd(WSq(x), WSq(y)), WSq(MM(L1 - L2))))

\* numerator = x**2 + y**2 - l1**2 - l2**2
Numerator(x, y) == WSub(WAdd(WSq(x), WSq(y)), SumOfSquares)

\* denom / 2^8: the scale of the pair <<c2, s2>> below.
Denom8 == WShift(TwiceProduct, 8)

\* The negative root in the place of s2: the elbow-down branch.
SinFromRoots_ElbowDown(ru, rv) ==
  0 - FInt(WMul(ru.m, rv.m), ru.e + rv.e - 8)

\* s2 = math.sqrt(1 - c2**2) times Denom8, from the square roots ru and rv
\* of u = (1 - c2) * denom and v = (1 + c2) * denom.
SinFromRoots(ru, rv) == FInt(WMul(ru.m, rv.m), ru.e + rv.e - 8)

\* <<c2, s2>> times Denom8, c2 clamped to [-1, 1].
ClampedCosSin(numer, u, v) ==
  IF WNegative(u) THEN <<Denom8, 0>>
  ELSE IF WNegative(v) THEN <<0 - Denom8, 0>>
  ELSE <<WShift(numer, 8), SinFromRoots(WSqrt(u), WSqrt(v))>>

ElbowCosSin(numer) ==
  ClampedCosSin(numer, WSub(TwiceProduct, numer), WAdd(TwiceProduct, numer))

\* theta1 = math.atan2(s1, c1): den_k > 0 divides both and is left out.
Theta1From(s1, c1) ==
  IF WZero(s1) /\ WZero(c1) THEN 0 ELSE Atan2(WShift(s1, 14), WShift(c1, 14))

\* theta1 from k = <<term, l2 * s2>>, scaled to 20 bits.
Theta1(x, y, k) ==
  Theta1From(WAdd(WMul(0 - x, k[2]), WMul(y, k[1])),
             WAdd(WMul(y, k[2]), WMul(x, k[1])))

\* <<theta1, theta2>> from cs = <<c2, s2>> times Denom8.
AnglesFrom(x, y, cs) ==
  <<Theta1(x, y, Shrink(L1 * (Denom8 \div 256) + L2 * TruncDiv(cs[1], 256),
                        L2 * (cs[2] \div 256), 20)),
    Atan2(cs[2], cs[1])>>

\* The joint angles <<theta1, theta2>> of the point <<x, y>>.  No path of the
\* function returns None.
inverse_kinematics(x, y) ==
  IF WZero(TwiceProduct) THEN <<0, 0>>
  ELSE IF x = 0 /\ y = 0 THEN <<0, 0>>
  ELSE AnglesFrom(x, y, ElbowCosSin(Numerator(x, y)))

\* int(theta * STEPS_PER_RAD_J1) and int(theta * STEPS_PER_RAD_J2)
StepsJ1(theta) == TruncDiv(theta, AngleTurn \div STEPS_PER_TURN_J1)

StepsJ2(theta) == TruncDiv(theta, AngleTurn \div STEPS_PER_TURN_J2)

(***************************************************************************)
(* Cosine and sine, degrees and radians.                                   *)
(***************************************************************************)
\* 2^28 over the gain of the turns by the angles of AtanTable.
CordicStart == 163008219

RECURSIVE Rotate(_, _, _, _)
\* The vector <<x, y>> turned by the angle z, by the angles of the table.
Rotate(x, y, z, k) ==
  IF k >= Len(AtanTable) THEN <<x, y>>
  ELSE IF z >= 0
  THEN Rotate(x - y \div 2^k, y + x \div 2^k, z - AtanTable[k + 1], k + 1)
  ELSE Rotate(x + y \div 2^k, y - x \div 2^k, z + AtanTable[k + 1], k + 1)

\* The vector v of 1/2^28 as a pair of 1/One.
ToOne(v) == <<RoundDiv(v[1], 2^8), RoundDiv(v[2], 2^8)>>

Negated(v) == <<0 - v[1], 0 - v[2]>>

\* <<math.cos(r), math.sin(r)>> in 1/One for r within a quarter turn of 0.
CosSinQuadrant(r) ==
  IF r = 0 THEN <<One, 0>>
  ELSE IF r = QuarterTurn THEN <<0, One>>
  ELSE IF r = 0 - QuarterTurn THEN <<0, 0 - One>>
  ELSE ToOne(Rotate(CordicStart, 0, r, 0))

\* The same for r in [-HalfTurn, HalfTurn).
CosSinReduced(r) ==
  IF r > QuarterTurn THEN Negated(CosSinQuadrant(r - HalfTurn))
  ELSE IF r < 0 - QuarterTurn THEN Negated(CosSinQuadrant(r + HalfTurn))
  ELSE CosSinQuadrant(r)

\* <<math.cos(a), math.sin(a)>> in 1/One for any angle a.
CosSin(a) == CosSinReduced(((a + HalfTurn) % AngleTurn) - HalfTurn)

\* Degrees are integer numbers of 1/DegreeScale degree.
DegreeScale == (1000 * 1000)

\* math.degrees(a): AngleTurn angle units are 360 degrees, a ratio of 45 / 8.
Degrees(a) == 45 * (a \div 8) + RoundDiv(45 * (a % 8), 8)

\* A sign error: the angle counted the other way round.
Radians_Mirrored(d) == 0 - (8 * (d \div 45) + RoundDiv(8 * (d % 45), 45))

\* math.radians(d)
Radians(d) == 8 * (d \div 45) + RoundDiv(8 * (d % 45), 45)

(***************************************************************************)
(* The arithmetic of the two-link arm for links l1 and l2, as lengths.     *)
(***************************************************************************)
\* 2 * l1 * l2
ArmTwiceProduct(l1, l2) == WSub(WSq(l1 + l2), WAdd(WSq(l1), WSq(l2)))

\* math.sqrt(x**2 + y**2) > l1 + l2 and < abs(l1 - l2), on the squares
ArmTooFar(l1, l2, x, y) ==
  WNegative(WSub(WSq(l1 + l2), WAdd(WSq(x), WSq(y))))

ArmTooNear(l1, l2, x, y) ==
  WNegative(WSub(WAdd(WSq(x), WSq(y)), WSq(l1 - l2)))

\* x**2 + y**2 - l1**2 - l2**2
ArmNumerator(l1, l2, x, y) ==
  WSub(WAdd(WSq(x), WSq(y)), WAdd(WSq(l1), WSq(l2)))

\* <<c2, s2>> times twice / 2^8 for c2 = numer / twice in [-1, 1].
ArmCosSin(twice, numer) ==
  <<WShift(numer, 8),
    SinFromRoots(WSqrt(WSub(twice, numer)), WSqrt(WAdd(twice, numer)))>>

\* c2 > 1.0 and c2 < -1.0
ArmCosAboveOne(twice, numer) == WNegative(WSub(twice, numer))

ArmCosBelowMinusOne(twice, numer) == WNegative(WAdd(twice, numer))

\* <<c2, s2>> times twice / 2^8, c2 clamped to [-1, 1].
ArmClampedCosSin(twice, numer) ==
  IF ArmCosAboveOne(twice, numer) THEN <<WShift(twice, 8), 0>>
  ELSE IF ArmCosBelowMinusOne(twice, numer) THEN <<0 - WShift(twice, 8), 0>>
  ELSE ArmCosSin(twice, numer)

\* <<l1 + l2 * c2, l2 * s2>> up to a common factor, from cs = <<c2, s2>>
\* times d8 and the links h1, h2 in half millimetres.
ArmElbow(h1, h2, d8, cs) ==
  Shrink(h1 * (d8 \div 256) + h2 * TruncDiv(cs[1], 256),
         h2 * (cs[2] \div 256), 20)

\* <<l1 * cos(a1) + l2 * cos(a12), l1 * sin(a1) + l2 * sin(a12)>> from the
\* pairs <<cos, sin>> of the two angles.
ArmTip(l1, l2, cs1, cs12) ==
  <<FracMul(l1, cs1[1]) + FracMul(l2, cs12[1]),
    FracMul(l1, cs1[2]) + FracMul(l2, cs12[2])>>

(***************************************************************************)
(* kinematic_part/IK3.py: trajectory generators.  A point is <<x, y>>, a   *)
(* sample <<x, y, pen>>, a waypoint [x, y, pen].                           *)
(***************************************************************************)
\* The integer part of math.dist(p, q).
Dist(p, q) ==
  LET r == WSqrt(WAdd(WSq(q[1] - p[1]), WSq(q[2] - p[2])))
  IN  IF r.e >= 0 THEN r.m * 2^r.e ELSE r.m \div 2^(0 - r.e)

\* The length covered in one tick of dt ms at speed mm/s.
PerTick(speed, dt) == (speed * dt * CoordScale) \div 1000

\* A cubic profile 3 * tau**2 - 2 * tau**3 in the place of the quintic one.
get_quintic_scalar_Cubic(t, T) ==
  IF t >= T THEN One
  ELSE IF t <= 0 THEN 0
  ELSE LET tau == MulDiv(One, t, T)
           tau2 == FracMul(tau, tau)
           tau3 == FracMul(tau2, tau)
       IN  3 * tau2 - 2 * tau3

\* The profile value at time t of T, as a number of 1/One.
get_quintic_scalar(t, T) ==
  IF t >= T THEN One
  ELSE IF t <= 0 THEN 0
  ELSE LET tau == MulDiv(One, t, T)
           tau3 == FracMul(FracMul(tau, tau), tau)
           tau4 == FracMul(tau3, tau)
           tau5 == FracMul(tau4, tau)
       IN  10 * tau3 - 15 * tau4 + 6 * tau5

\* num_samples without "if num_samples < 5: num_samples = 5".
TravelSamples_NoMinimum(dist, speed, dt) ==
  IF dist < PerTick(speed, dt) THEN 1 ELSE dist \div PerTick(speed, dt)

\* num_samples of interpolate_travel for a distance dist >= 0.001.
TravelSamples(dist, speed, dt) ==
  LET num_samples == IF dist < PerTick(speed, dt) THEN 1
                     ELSE dist \div PerTick(speed, dt)
  IN  IF num_samples < 5 THEN 5 ELSE num_samples

interpolate_travel(start_p, end_p, speed, dt, pen_state) ==
  LET dist == Dist(start_p, end_p)
      num_samples == TravelSamples(dist, speed, dt)
      duration == num_samples * dt
  IN  IF dist < EpsUnits THEN <<>>
      ELSE [n \in 1..num_samples |->
              LET s == get_quintic_scalar((n - 1) * dt, duration)
              IN  <<start_p[1] + FracMul(end_p[1] - start_p[1], s),
                    start_p[2] + FracMul(end_p[2] - start_p[2], s),
                    pen_state>>]

\* The draw profile without the test of "dist < 0.001".
interpolate_linear_NoEps(start_p, end_p, speed, dt, pen_state) ==
  LET dist == Dist(start_p, end_p)
      num_samples == dist \div PerTick(speed, dt)
  IN  IF dist < PerTick(speed, dt)
      THEN << <<end_p[1], end_p[2], pen_state>> >>
      ELSE [n \in 1..num_samples |->
              <<start_p[1] + MulDiv(end_p[1] - start_p[1], n, num_samples),
                start_p[2] + MulDiv(end_p[2] - start_p[2], n, num_samples),
                pen_state>>]

\* The draw profile sampled from the start point: "for i in range(num_samples)".
interpolate_linear_FromStart(start_p, end_p, speed, dt, pen_state) ==
  LET dist == Dist(start_p, end_p)
      num_samples == dist \div PerTick(speed, dt)
  IN  IF dist < EpsUnits THEN <<>>
      ELSE IF dist < PerTick(speed, dt)
      THEN << <<end_p[1], end_p[2], pen_state>> >>
      ELSE [n \in 1..num_samples |->
              <<start_p[1] + MulDiv(end_p[1] - start_p[1], n - 1, num_samples),
                start_p[2] + MulDiv(end_p[2] - start_p[2], n - 1, num_samples),
                pen_state>>]

interpolate_linear(start_p, end_p, speed, dt, pen_state) ==
  LET dist == Dist(start_p, end_p)
      num_samples == dist \div PerTick(speed, dt)
  IN  IF dist < EpsUnits THEN <<>>
      ELSE IF dist < PerTick(speed, dt)
      THEN << <<end_p[1], end_p[2], pen_state>> >>
      ELSE [n \in 1..num_samples |->
              <<start_p[1] + MulDiv(end_p[1] - start_p[1], n, num_samples),
                start_p[2] + MulDiv(end_p[2] - start_p[2], n, num_samples),
                pen_state>>]

(***************************************************************************)
(* kinematic_part/IK3.py: main logic.                                      *)
(***************************************************************************)
Home == <<MM(HOME_X), MM(HOME_Y)>>

\* n samples at pos with the pen at pen.
Dwell(pos, n, pen) == [k \in 1..n |-> <<pos[1], pos[2], pen>>]

\* wait_steps = int(PEN_DOWN_DELAY / DT) of the draw branch
PenDownWait == (PEN_DOWN_DELAY * 1000) \div DT

\* The travel branch with no dwell and no sample for a move of no length.
TravelSegment_Bare(start_pos, target_pos) ==
  interpolate_travel(start_pos, target_pos, TRAVEL_SPEED, DT, 0)

\* The travel branch with the dwell after the moves.
TravelSegment_DwellAfter(start_pos, target_pos) ==
  LET wait_steps == PEN_UP_DELAY_MS \div DT
      moves == interpolate_travel(start_pos, target_pos, TRAVEL_SPEED, DT, 0)
  IN  (IF moves = <<>> THEN << <<target_pos[1], target_pos[2], 0>> >>
       ELSE moves)
        \o Dwell(start_pos, wait_steps, 0)

\* The samples one pen-up waypoint adds: the dwell for the pen to lift, then
\* the travel moves, or the target alone if there are none.
TravelSegment(start_pos, target_pos) ==
  LET wait_steps == PEN_UP_DELAY_MS \div DT
      moves == interpolate_travel(start_pos, target_pos, TRAVEL_SPEED, DT, 0)
  IN  Dwell(start_pos, wait_steps, 0)
        \o (IF moves = <<>> THEN << <<target_pos[1], target_pos[2], 0>> >>
            ELSE moves)

\* The draw branch with the dwell whatever the pen of the last sample.
DrawSegment_AlwaysDwell(traj, start_pos, target_pos) ==
  Dwell(start_pos, PenDownWait, 1)
    \o interpolate_linear(start_pos, target_pos, DRAW_SPEED, DT, 1)

\* The samples one pen-down waypoint adds to the trajectory traj.
DrawSegment(traj, start_pos, target_pos) ==
  LET last_state == IF traj # <<>> THEN Last(traj)[3] ELSE 0
  IN  (IF last_state = 0 THEN Dwell(start_pos, PenDownWait, 1) ELSE <<>>)
        \o interpolate_linear(start_pos, target_pos, DRAW_SPEED, DT, 1)

\* The loop without its "continue".
Skipped_Never(start_pos, target) == FALSE

\* The "continue" of the loop: a pen-down waypoint at the current position.
Skipped(start_pos, target) ==
  Dist(start_pos, <<target.x, target.y>>) < EpsUnits /\ target.pen = 1

\* The iteration without "current_x, current_y = target_x, target_y".
ProcessTarget_KeepCurrent ==
  /\ gpc = "targets"
  /\ tnext < Len(target_list)
  /\ LET target == target_list[tnext + 1]
         start_pos == current
         target_pos == <<target.x, target.y>>
     IN  IF Skipped(start_pos, target)
         THEN UNCHANGED <<current, full_trajectory>>
         ELSE /\ full_trajectory' = full_trajectory \o
                   (IF target.pen = 0 THEN TravelSegment(start_pos, target_pos)
                    ELSE DrawSegment(full_trajectory, start_pos, target_pos))
              /\ UNCHANGED current
  /\ tnext' = tnext + 1
  /\ UNCHANGED <<gpc, target_list, commands>>
  /\ UNCHANGED <<dvars, cvars>>

\* One iteration of "for i, target in enumerate(target_list)".
ProcessTarget ==
  /\ gpc = "targets"
  /\ tnext < Len(target_list)
  /\ LET target == target_list[tnext + 1]
         start_pos == current
         target_pos == <<target.x, target.y>>
     IN  IF Skipped(start_pos, target)
         THEN UNCHANGED <<current, full_trajectory>>
         ELSE /\ full_trajectory' = full_trajectory \o
                   (IF target.pen = 0 THEN TravelSegment(start_pos, target_pos)
                    ELSE DrawSegment(full_trajectory, start_pos, target_pos))
              /\ current' = target_pos
  /\ tnext' = tnext + 1
  /\ UNCHANGED <<gpc, target_list, commands>>
  /\ UNCHANGED <<dvars, cvars>>

\* The value None, which inverse_kinematics is tested for.
None == <<>>

OFFSET_STEPS_1 == StepsJ1(inverse_kinematics(Home[1], Home[2])[1])

OFFSET_STEPS_2 == StepsJ2(inverse_kinematics(Home[1], Home[2])[2])

\* round(abs(delta) / DT, 1), in tenths of a hertz.
Hz(delta) == RoundDiv(Abs(delta) * 10 * 1000, DT)

\* The step positions without the home offset.
CurrentSteps_NoOffset(ik, prev_steps_1, prev_steps_2) ==
  IF ik = None THEN <<prev_steps_1, prev_steps_2>>
  ELSE <<StepsJ1(ik[1]) * (0 - 1), StepsJ2(ik[2]) * (0 - 1)>>

\* curr_steps_1, curr_steps_2 from the result of inverse_kinematics.
CurrentSteps(ik, prev_steps_1, prev_steps_2) ==
  IF ik = None THEN <<prev_steps_1, prev_steps_2>>
  ELSE <<(StepsJ1(ik[1]) - OFFSET_STEPS_1) * (0 - 1),
         (StepsJ2(ik[2]) - OFFSET_STEPS_2) * (0 - 1)>>

\* The row with the time of the end of its tick in the place of its start.
RowFields_TimeFromOne(idx, pen, curr, delta_1, delta_2) ==
  [Time |-> (idx + 1) * DT,
   J1_Pos |-> curr[1],
   J1_Dir |-> IF delta_1 >= 0 THEN 1 ELSE 0,
   J1_Delta |-> Abs(delta_1),
   J1_Hz |-> Hz(delta_1),
   J2_Pos |-> curr[2],
   J2_Dir |-> IF delta_2 >= 0 THEN 1 ELSE 0,
   J2_Delta |-> Abs(delta_2),
   J2_Hz |-> Hz(delta_2),
   Pen |-> pen]

\* The row with direction 1 for a positive delta only.
RowFields_StrictDir(idx, pen, curr, delta_1, delta_2) ==
  [Time |-> idx * DT,
   J1_Pos |-> curr[1],
   J1_Dir |-> IF delta_1 > 0 THEN 1 ELSE 0,
   J1_Delta |-> Abs(delta_1),
   J1_Hz |-> Hz(delta_1),
   J2_Pos |-> curr[2],
   J2_Dir |-> IF delta_2 > 0 THEN 1 ELSE 0,
   J2_Delta |-> Abs(delta_2),
   J2_Hz |-> Hz(delta_2),
   Pen |-> pen]

\* The row appended to commands.  Time is in ms.
RowFields(idx, pen, curr, delta_1, delta_2) ==
  [Time |-> idx * DT,
   J1_Pos |-> curr[1],
   J1_Dir |-> IF delta_1 >= 0 THEN 1 ELSE 0,
   J1_Delta |-> Abs(delta_1),
   J1_Hz |-> Hz(delta_1),
   J2_Pos |-> curr[2],
   J2_Dir |-> IF delta_2 >= 0 THEN 1 ELSE 0,
   J2_Delta |-> Abs(delta_2),
   J2_Hz |-> Hz(delta_2),
   Pen |-> pen]

RowFrom(idx, pen, curr, prev_steps_1, prev_steps_2) ==
  RowFields(idx, pen, curr, curr[1] - prev_steps_1, curr[2] - prev_steps_2)

\* The row of sample number idx (from 0), the previous row's positions given.
CommandRow(idx, sample, prev_steps_1, prev_steps_2) ==
  RowFrom(idx, sample[3],
          CurrentSteps(inverse_kinematics(sample[1], sample[2]),
                       prev_steps_1, prev_steps_2),
          prev_steps_1, prev_steps_2)

RECURSIVE MotorCommands(_, _, _, _, _)
RECURSIVE MotorCommandsAfter(_, _, _, _)
\* The rows of "for i, (x, y, pen) in enumerate(full_trajectory)" for the
\* samples lo .. hi - 1, the positions of row lo - 1 given: the rows of the
\* first half, then those of the second from where the first half ends.
MotorCommands(traj, lo, hi, prev_steps_1, prev_steps_2) ==
  IF hi <= lo THEN <<>>
  ELSE IF hi = lo + 1
  THEN <<CommandRow(lo, traj[lo + 1], prev_steps_1, prev_steps_2)>>
  ELSE MotorCommandsAfter(traj, (lo + hi) \div 2, hi,
         MotorCommands(traj, lo, (lo + hi) \div 2, prev_steps_1, prev_steps_2))

\* The rows head, then the rows of the samples mid .. hi - 1.
MotorCommandsAfter(traj, mid, hi, head) ==
  head \o MotorCommands(traj, mid, hi, Last(head).J1_Pos, Last(head).J2_Pos)

\* The command generation once the targets are processed, and the saving of
\* the rows, which may fail: the failure is reported and the script goes on.
GenerateCommands ==
  /\ gpc = "targets"
  /\ tnext >= Len(target_list)
  /\ commands' = MotorCommands(full_trajectory, 0, Len(full_trajectory), 0, 0)
  /\ \E saved \in BOOLEAN : gpc' = IF saved THEN "saved" ELSE "unsaved"
  /\ UNCHANGED <<target_list, tnext, current, full_trajectory>>
  /\ UNCHANGED <<dvars, cvars>>

(***************************************************************************)
(* kinematic_part/IK3.py: ScaraRobot.forward_kinematics.                   *)
(***************************************************************************)
\* (xe, ye, xf, yf) from the pairs <<cos, sin>> of t1 and of t1 + t2.
ElbowAndTip(l1, l2, cs1, cs12) ==
  <<FracMul(l1, cs1[1]), FracMul(l1, cs1[2])>> \o ArmTip(l1, l2, cs1, cs12)

forward_kinematics(t1, t2) ==
  ElbowAndTip(MM(L1), MM(L2), CosSin(t1), CosSin(t1 + t2))

(***************************************************************************)
(* test_connrct_PLC.py: class ScaraRobot, built as ScaraRobot(160, 149.5); *)
(* scara_grid_test.py: class SCARARobotController; and                     *)
(* scara_precision_tester.py: class SCARAPrecisionTester.  The three have  *)
(* the same link lengths.  The last two return angles in degrees and a     *)
(* third value, whether the point is within reach.                         *)
(***************************************************************************)
GRID_L1 == 160
\* L2 = 149.5, in tenths
GRID_L2_X10 == 1495

GridL1 == MM(GRID_L1)

GridL2 == (GRID_L2_X10 * CoordScale) \div 10

\* The links in half millimetres.
GridHalf1 == 2 * GRID_L1

GridHalf2 == GRID_L2_X10 \div 5

GridTwice == ArmTwiceProduct(GridL1, GridL2)

GridDenom8 == WShift(GridTwice, 8)

\* <<theta1, theta2>> of test_connrct_PLC.py from cs = <<c2, s2>>.
PLCTest_AnglesFrom(x, y, cs) ==
  <<Theta1(x, y, ArmElbow(GridHalf1, GridHalf2, GridDenom8, cs)),
    Atan2(cs[2], cs[1])>>

\* ScaraRobot.inverse_kinematics of test_connrct_PLC.py; None stands for
\* the pair (None, None).
PLCTest_inverse_kinematics(x, y) ==
  IF WZero(GridTwice) THEN None
  ELSE IF x = 0 /\ y = 0 THEN None
  ELSE PLCTest_AnglesFrom(x, y,
         ArmClampedCosSin(GridTwice, ArmNumerator(GridL1, GridL2, x, y)))

PLCTest_forward_kinematics(t1, t2) ==
  ElbowAndTip(GridL1, GridL2, CosSin(t1), CosSin(t1 + t2))

\* The value returned for a point out of reach.
Unreachable == <<0, 0, FALSE>>

\* theta1 = math.atan2(y, x) - math.atan2(k2, k1), then the degrees.
GridPose(x, y, k, theta2) ==
  <<Degrees(Atan2(y, x) - Atan2(k[2], k[1])), Degrees(theta2), TRUE>>

\* k1 = L1 + L2 * math.cos(theta2) and k2 = L2 * math.sin(theta2), both
\* times One, from cs = <<cos, sin>> of theta2.
GridTest_Elbow(cs) == <<GridHalf1 * One + GridHalf2 * cs[1], GridHalf2 * cs[2]>>

GridTest_PoseFrom(x, y, theta2) ==
  GridPose(x, y, GridTest_Elbow(CosSin(theta2)), theta2)

GridTest_Solve(x, y, numer) ==
  IF ArmCosAboveOne(GridTwice, numer) \/ ArmCosBelowMinusOne(GridTwice, numer)
  THEN Unreachable
  ELSE GridTest_PoseFrom(x, y, Atan2(ArmCosSin(GridTwice, numer)[2],
                                     ArmCosSin(GridTwice, numer)[1]))

\* SCARARobotController.inverse_kinematics
GridTest_inverse_kinematics(x, y) ==
  IF ArmTooFar(GridL1, GridL2, x, y) \/ ArmTooNear(GridL1, GridL2, x, y)
  THEN Unreachable
  ELSE GridTest_Solve(x, y, ArmNumerator(GridL1, GridL2, x, y))

\* SCARARobotController.forward_kinematics
GridTest_forward_kinematics(theta1_deg, theta2_deg) ==
  ArmTip(GridL1, GridL2, CosSin(Radians(theta1_deg)),
         CosSin(Radians(theta1_deg) + Radians(theta2_deg)))

\* k1 = L1 + L2 * cos_theta2 and k2 = L2 * sin_theta2 from cs, and theta2.
Precision_PoseFrom(x, y, cs) ==
  GridPose(x, y, ArmElbow(GridHalf1, GridHalf2, GridDenom8, cs),
           Atan2(cs[2], cs[1]))

Precision_Solve(x, y, numer) ==
  IF ArmCosAboveOne(GridTwice, numer) \/ ArmCosBelowMinusOne(GridTwice, numer)
  THEN Unreachable
  ELSE Precision_PoseFrom(x, y, ArmCosSin(GridTwice, numer))

\* SCARAPrecisionTester.inverse_kinematics
Precision_inverse_kinematics(x, y) ==
  IF ArmTooFar(GridL1, GridL2, x, y) \/ ArmTooNear(GridL1, GridL2, x, y)
  THEN Unreachable
  ELSE Precision_Solve(x, y, ArmNumerator(GridL1, GridL2, x, y))

\* SCARAPrecisionTester.forward_kinematics
Precision_forward_kinematics(theta1_deg, theta2_deg) ==
  ArmTip(GridL1, GridL2, CosSin(Radians(theta1_deg)),
         CosSin(Radians(theta1_deg) + Radians(theta2_deg)))

(***************************************************************************)
(* The kinematics called on their own: inverse_kinematics for a target,    *)
(* then forward_kinematics for the pose it returned, as the callers do     *)
(* (IK3.py update(), test_4_motion_accuracy, test_grid_point,              *)
(* test_single_point).  result is <<pose>>, then <<pose, position>>.       *)
(***************************************************************************)
IK3_InverseKinematics ==
  /\ callee = "IK3"
  /\ ~returned
  /\ result' = <<inverse_kinematics(args.x, args.y)>>
  /\ returned' = TRUE
  /\ UNCHANGED <<callee, args>>
  /\ UNCHANGED <<dvars, gvars>>

\* "if t1 is None: return", then forward_kinematics(t1, t2)
IK3_ForwardKinematics ==
  /\ callee = "IK3"
  /\ returned
  /\ Len(result) = 1
  /\ result[1] # None
  /\ result' = Append(result, forward_kinematics(result[1][1], result[1][2]))
  /\ UNCHANGED <<callee, args, returned>>
  /\ UNCHANGED <<dvars, gvars>>

PLCTest_InverseKinematics ==
  /\ callee = "test_connrct_PLC"
  /\ ~returned
  /\ result' = <<PLCTest_inverse_kinematics(args.x, args.y)>>
  /\ returned' = TRUE
  /\ UNCHANGED <<callee, args>>
  /\ UNCHANGED <<dvars, gvars>>

\* "if t1 is not None:" forward_kinematics(t1, t2)
PLCTest_ForwardKinematics ==
  /\ callee = "test_connrct_PLC"
  /\ returned
  /\ Len(result) = 1
  /\ result[1] # None
  /\ result' = Append(result,
                      PLCTest_forward_kinematics(result[1][1], result[1][2]))
  /\ UNCHANGED <<callee, args, returned>>
  /\ UNCHANGED <<dvars, gvars>>

GridTest_InverseKinematics ==
  /\ callee = "scara_grid_test"
  /\ ~returned
  /\ result' = <<GridTest_inverse_kinematics(args.x, args.y)>>
  /\ returned' = TRUE
  /\ UNCHANGED <<callee, args>>
  /\ UNCHANGED <<dvars, gvars>>

\* "if not is_valid: return False", then forward_kinematics(theta1, theta2)
GridTest_ForwardKinematics ==
  /\ callee = "scara_grid_test"
  /\ returned
  /\ Len(result) = 1
  /\ result[1][3]
  /\ result' = Append(result,
                      GridTest_forward_kinematics(result[1][1], result[1][2]))
  /\ UNCHANGED <<callee, args, returned>>
  /\ UNCHANGED <<dvars, gvars>>

Precision_InverseKinematics ==
  /\ callee = "scara_precision_tester"
  /\ ~returned
  /\ result' = <<Precision_inverse_kinematics(args.x, args.y)>>
  /\ returned' = TRUE
  /\ UNCHANGED <<callee, args>>
  /\ UNCHANGED <<dvars, gvars>>

\* "if not reachable: return result", then forward_kinematics(theta1, theta2)
Precision_ForwardKinematics ==
  /\ callee = "scara_precision_tester"
  /\ returned
  /\ Len(result) = 1
  /\ result[1][3]
  /\ result' = Append(result,
                      Precision_forward_kinematics(result[1][1], result[1][2]))
  /\ UNCHANGED <<callee, args, returned>>
  /\ UNCHANGED <<dvars, gvars>>

(***************************************************************************)
(* scara_grid_test.py and scara_precision_tester.py: the point tests.  A   *)
(* call sends at most one command; its writes are logged as those of       *)
(* command 0.  Reads of the registers change nothing and are not logged.   *)
(***************************************************************************)
\* steps_per_rev = 200 * 32
GRID_STEPS_PER_REV == 200 * 32

\* step_to_angle = 360.0 / steps_per_rev, in degree units (0.05625 degrees)
step_to_angle == (360 * DegreeScale) \div GRID_STEPS_PER_REV

\* velocity: int = 1000
DEFAULT_VELOCITY == 1000

\* round(a / b) of Python: to the nearest integer, a tie to the even one.
RoundHalfEven(a, b) ==
  LET q == a \div b
      r == a % b
  IN  IF 2 * r < b THEN q
      ELSE IF 2 * r > b THEN q + 1
      ELSE IF q % 2 = 0 THEN q ELSE q + 1

\* SCARARobotController.angles_to_motor_values: int(theta / step_to_angle)
angles_to_motor_values(theta1, theta2) ==
  <<TruncDiv(theta1, step_to_angle), TruncDiv(theta2, step_to_angle)>>

\* SCARAPrecisionTester.angles_to_steps: int(round(theta / step_to_angle))
angles_to_steps(theta1_deg, theta2_deg) ==
  <<RoundHalfEven(theta1_deg, step_to_angle),
    RoundHalfEven(theta2_deg, step_to_angle)>>

\* The command sent with the trigger written before the registers.
send_motor_commands_TriggerFirst(pos1, vel1, pos2, vel2, outcome) ==
  IF outcome = "bitfail"
  THEN <<BitEntry("M3", 0, 1, FALSE)>>
  ELSE <<BitEntry("M3", 0, 1, TRUE),
         RegEntry(0, <<pos1, vel1, pos2, vel2>>, outcome = "ok")>>

\* The write calls of SCARARobotController.send_motor_commands: the D100
\* batch, then, unless that raised, M3 := 1.  It returns outcome = "ok".
send_motor_commands(pos1, vel1, pos2, vel2, outcome) ==
  IF outcome = "regfail"
  THEN <<RegEntry(0, <<pos1, vel1, pos2, vel2>>, FALSE)>>
  ELSE <<RegEntry(0, <<pos1, vel1, pos2, vel2>>, TRUE),
         BitEntry("M3", 0, 1, outcome = "ok")>>

\* The write calls of SCARAPrecisionTester.send_robot_command, the same.
send_robot_command(steps1, vel1, steps2, vel2, outcome) ==
  IF outcome = "regfail"
  THEN <<RegEntry(0, <<steps1, vel1, steps2, vel2>>, FALSE)>>
  ELSE <<RegEntry(0, <<steps1, vel1, steps2, vel2>>, TRUE),
         BitEntry("M3", 0, 1, outcome = "ok")>>

\* math.sqrt(error_x**2 + error_y**2) <= limit, for the position reached.
WithinError(position, x, y, limit) ==
  /\ Abs(position[1] - x) <= limit
  /\ Abs(position[2] - y) <= limit
  /\ (position[1] - x) * (position[1] - x)
       + (position[2] - y) * (position[2] - y) <= limit * limit

\* The writes of test_grid_point without the test of is_valid.
GridTest_PointWrites_Unchecked(pose, velocity, outcome) ==
  send_motor_commands(angles_to_motor_values(pose[1], pose[2])[1], velocity,
                      angles_to_motor_values(pose[1], pose[2])[2], velocity,
                      outcome)

\* The write calls of test_grid_point for the pose inverse kinematics gave:
\* none after "if not is_valid: return False".
GridTest_PointWrites(pose, velocity, outcome) ==
  IF ~pose[3] THEN <<>>
  ELSE send_motor_commands(angles_to_motor_values(pose[1], pose[2])[1],
                           velocity,
                           angles_to_motor_values(pose[1], pose[2])[2],
                           velocity, outcome)

\* What test_grid_point returns: True if the point is valid, the command
\* was sent and forward kinematics is within 10 mm of the target.
GridTest_Verdict(pose, x, y, outcome) ==
  /\ pose[3]
  /\ outcome = "ok"
  /\ WithinError(GridTest_forward_kinematics(pose[1], pose[2]), x, y, MM(10))

\* SCARARobotController.test_grid_point(x, y, point_num, velocity)
TestGridPoint ==
  /\ callee = "test_grid_point"
  /\ ~returned
  /\ \E outcome \in {"ok", "regfail", "bitfail"} :
       LET pose == GridTest_inverse_kinematics(args.x, args.y)
           es == GridTest_PointWrites(pose, args.velocity, outcome)
           hw == ApplyWrites(Hardware, es)
       IN  /\ log' = log \o es
           /\ plcD100' = hw.D100
           /\ plcM3' = hw.M3
           /\ result' = <<GridTest_Verdict(pose, args.x, args.y, outcome)>>
  /\ returned' = TRUE
  /\ UNCHANGED <<callee, args>>
  /\ UNCHANGED <<script, pc, rows, i, m3_status, m3_enabled, plcM4, errorRow,
                 readErrors>>
  /\ UNCHANGED gvars

\* The write calls of test_single_point for the pose inverse kinematics
\* gave: none after "if not reachable: ... return result".
Precision_PointWrites(pose, velocity, outcome) ==
  IF ~pose[3] THEN <<>>
  ELSE send_robot_command(angles_to_steps(pose[1], pose[2])[1], velocity,
                          angles_to_steps(pose[1], pose[2])[2], velocity,
                          outcome)

\* The fields 'reachable', 'success' and 'error_message' of the result of
\* test_single_point ("" where the key is not set): success if the point
\* is reachable, the command was sent and forward kinematics is within the
\* acceptable threshold, 10 mm, of the target.
Precision_Result(pose, x, y, outcome) ==
  [reachable |-> pose[3],
   success |->
     /\ pose[3]
     /\ outcome = "ok"
     /\ WithinError(Precision_forward_kinematics(pose[1], pose[2]), x, y,
                    MM(10)),
   error_message |->
     IF ~pose[3] THEN "Point outside workspace"
     ELSE IF outcome # "ok" THEN "Failed to send robot command"
     ELSE ""]

\* SCARAPrecisionTester.test_single_point(x, y, point_id, velocity)
TestSinglePoint ==
  /\ callee = "test_single_point"
  /\ ~returned
  /\ \E outcome \in {"ok", "regfail", "bitfail"} :
       LET pose == Precision_inverse_kinematics(args.x, args.y)
           es == Precision_PointWrites(pose, args.velocity, outcome)
           hw == ApplyWrites(Hardware, es)
       IN  /\ log' = log \o es
           /\ plcD100' = hw.D100
           /\ plcM3' = hw.M3
           /\ result' = <<Precision_Result(pose, args.x, args.y, outcome)>>
  /\ returned' = TRUE
  /\ UNCHANGED <<callee, args>>
  /\ UNCHANGED <<script, pc, rows, i, m3_status, m3_enabled, plcM4, errorRow,
                 readErrors>>
  /\ UNCHANGED gvars

(***************************************************************************)
(* kinematic_part/IK3.py: the trajectory generators called on their own.   *)
(***************************************************************************)
\* moves = interpolate_travel(start_p, end_p, speed, dt, pen_state)
CallInterpolateTravel ==
  /\ callee = "interpolate_travel"
  /\ ~returned
  /\ result' = interpolate_travel(args.start_p, args.end_p, args.speed,
                                  args.dt, args.pen_state)
  /\ returned' = TRUE
  /\ UNCHANGED <<callee, args>>
  /\ UNCHANGED <<dvars, gvars>>

\* moves = interpolate_linear(start_p, end_p, speed, dt, pen_state)
CallInterpolateLinear ==
  /\ callee = "interpolate_linear"
  /\ ~returned
  /\ result' = interpolate_linear(args.start_p, args.end_p, args.speed,
                                  args.dt, args.pen_state)
  /\ returned' = TRUE
  /\ UNCHANGED <<callee, args>>
  /\ UNCHANGED <<dvars, gvars>>

\* s = get_quintic_scalar(curr_time, duration)
CallQuinticScalar ==
  /\ callee = "get_quintic_scalar"
  /\ ~returned
  /\ result' = get_quintic_scalar(args.t, args.T)
  /\ returned' = TRUE
  /\ UNCHANGED <<callee, args>>
  /\ UNCHANGED <<dvars, gvars>>

(***************************************************************************)
(* Specifications.                                                         *)
(***************************************************************************)
\* The generator before it is run, and the dispatcher before it is run.
GenIdle ==
  /\ gpc = "idle"
  /\ target_list = <<>>
  /\ tnext = 0
  /\ current = Home
  /\ full_trajectory = <<>>
  /\ commands = <<>>

\* No function is called on its own.
CallIdle ==
  /\ callee = "none"
  /\ args = <<>>
  /\ result = <<>>
  /\ returned = FALSE

DispatcherIdle ==
  /\ script = "none"
  /\ pc = "idle"
  /\ rows = <<>>
  /\ i = 0
  /\ m3_status = <<>>
  /\ m3_enabled = FALSE
  /\ plcM3 = 0
  /\ plcM4 = 0
  /\ plcD100 = <<>>
  /\ log = <<>>
  /\ errorRow = NoRow
  /\ readErrors = 0

(***************************************************************************)
(* Specifications of the dispatcher.                                       *)
(***************************************************************************)
\* The socket is open and the CSV file is about to be read.
Init ==
  /\ script \in {"grid3", "sender"}
  /\ pc = IF script = "grid3" THEN "wait" ELSE "stream"
  /\ rows \in RowLists
  /\ i = 0
  /\ m3_status = <<>>
  /\ m3_enabled = FALSE
  /\ plcM3 \in {0, 1}
  /\ plcM4 \in {0, 1}
  /\ plcD100 = <<>>
  /\ log = <<>>
  /\ errorRow = NoRow
  /\ readErrors = 0
  /\ GenIdle
  /\ CallIdle

Next ==
  \/ PollEnable
  \/ WakeUp
  \/ Grid3Row
  \/ EndOfRows
  \/ FinalM4Write
  \/ SenderRow
  \/ FinalM3Write
  \/ PlcOperator

Spec == Init /\ [][Next]_vars

\* The script's own steps are taken when they can be: it is the only thread
\* and each call returns.  The operator is under no obligation.
Fairness ==
  /\ WF_vars(PollEnable)
  /\ WF_vars(WakeUp)
  /\ WF_vars(Grid3Row)
  /\ WF_vars(EndOfRows)
  /\ WF_vars(FinalM4Write)
  /\ WF_vars(SenderRow)
  /\ WF_vars(FinalM3Write)

FairSpec == Spec /\ Fairness

\* The dispatcher with an operator who may press Ctrl-C.
CancelNext == Next \/ KeyboardInterrupt

CancelSpec == Init /\ [][CancelNext]_vars

(***************************************************************************)
(* Specification of the generator.                                         *)
(***************************************************************************)
\* Positions of waypoints: home, half a micrometre below home, 5 mm below
\* home, 0.3 mm to the right of that, and 10 mm to the right of home, which
\* is out of reach.
NearHome == <<Home[1], Home[2] - 1>>

Below == <<Home[1], Home[2] - MM(5)>>

BelowRight == <<Home[1] + MM(3) \div 10, Home[2] - MM(5)>>

OutOfReach == <<Home[1] + MM(10), Home[2]>>

\* The pen is up at any of the positions, or down at one within reach other
\* than home itself.
Waypoints ==
  { [x |-> q[1], y |-> q[2], pen |-> 0] :
      q \in {Home, NearHome, Below, BelowRight, OutOfReach} }
  \cup { [x |-> q[1], y |-> q[2], pen |-> 1] :
           q \in {NearHome, Below, BelowRight} }

TargetLists == UNION { [1..n -> Waypoints] : n \in 0..MaxTargets }

\* The generator started with no sample in full_trajectory.
GenInit_NoHomeSample ==
  /\ gpc = "targets"
  /\ target_list \in TargetLists
  /\ tnext = 0
  /\ current = Home
  /\ full_trajectory = <<>>
  /\ commands = <<>>
  /\ DispatcherIdle
  /\ CallIdle

\* full_trajectory holds the home sample, pen up, before the first waypoint.
GenInit ==
  /\ gpc = "targets"
  /\ target_list \in TargetLists
  /\ tnext = 0
  /\ current = Home
  /\ full_trajectory = << <<Home[1], Home[2], 0>> >>
  /\ commands = <<>>
  /\ DispatcherIdle
  /\ CallIdle

GenNext == ProcessTarget \/ GenerateCommands

GenSpec == GenInit /\ [][GenNext]_vars

(***************************************************************************)
(* Specification of the trajectory generators called on their own.         *)
(***************************************************************************)
\* 0.001 mm below home: the distance at which a segment is no longer empty.
AtEps == <<Home[1], Home[2] - EpsUnits>>

\* A line of 60 mm along the x axis, from (200, 0) to (260, 0).
LineStart == <<MM(200), 0>>

LineEnd == <<MM(260), 0>>

ProfilePoints ==
  {Home, NearHome, AtEps, Below, BelowRight, OutOfReach, LineStart, LineEnd}

\* The draw and travel speeds, in mm/s, and ticks of 10 and 20 ms.
Speeds == {DRAW_SPEED, TRAVEL_SPEED}

Ticks == {DT \div 2, DT}

SegmentCalls ==
  [start_p : ProfilePoints, end_p : ProfilePoints, speed : Speeds,
   dt : Ticks, pen_state : {0, 1}]

\* Times on the tick grid from one tick before 0 to beyond the duration T,
\* T a positive number of ticks as in interpolate_travel.
QuinticCalls ==
  { [t |-> k * dt, T |-> n * dt] :
      k \in (0 - 1)..(MaxTicks + 1), n \in 1..MaxTicks, dt \in Ticks }

ProfilerInit ==
  /\ callee \in {"interpolate_travel", "interpolate_linear",
                 "get_quintic_scalar"}
  /\ args \in IF callee = "get_quintic_scalar" THEN QuinticCalls
              ELSE SegmentCalls
  /\ result = <<>>
  /\ returned = FALSE
  /\ GenIdle
  /\ DispatcherIdle

ProfilerNext ==
  \/ CallInterpolateTravel
  \/ CallInterpolateLinear
  \/ CallQuinticScalar

ProfilerSpec == ProfilerInit /\ [][ProfilerNext]_vars

(***************************************************************************)
(* Specification of the kinematics called on their own.                    *)
(***************************************************************************)
KinCallees ==
  {"IK3", "test_connrct_PLC", "scara_grid_test", "scara_precision_tester"}

\* The links of the arm of the script s.
Links(s) == IF s = "IK3" THEN <<MM(L1), MM(L2)>> ELSE <<GridL1, GridL2>>

\* The distance between the points of the grid: 20 mm.
Pitch == MM(L2) \div 8

GridCoords == { k * Pitch : k \in (0 - MaxCells)..MaxCells }

\* Points at the distance r of the origin, exactly.
OnCircle(r) ==
  { <<r, 0>>, <<0, r>>, <<0, 0 - r>>, <<(3 * r) \div 5, (4 * r) \div 5>>,
    <<0 - (4 * r) \div 5, (3 * r) \div 5>> }

\* Points half a micrometre off the circle of radius r.
OffCircle(r) == { <<r + 1, 0>>, <<r - 1, 0>>, <<0, r + 1>>, <<0, r - 1>> }

\* l1 + l2 and |l1 - l2| of the two arms.
Radii ==
  { MM(L1) + MM(L2), MM(L2) - MM(L1), GridL1 + GridL2, GridL1 - GridL2 }

\* The targets: a grid that covers both workspaces and more, the origin
\* included, and points on and next to the limits of each workspace.
KinPoints ==
  (GridCoords \X GridCoords)
    \cup UNION { OnCircle(r) : r \in Radii }
    \cup UNION { OffCircle(r) : r \in Radii }

KinInit ==
  /\ callee \in KinCallees
  /\ args \in { [x |-> q[1], y |-> q[2]] : q \in KinPoints }
  /\ result = <<>>
  /\ returned = FALSE
  /\ GenIdle
  /\ DispatcherIdle

KinNext ==
  \/ IK3_InverseKinematics
  \/ IK3_ForwardKinematics
  \/ PLCTest_InverseKinematics
  \/ PLCTest_ForwardKinematics
  \/ GridTest_InverseKinematics
  \/ GridTest_ForwardKinematics
  \/ Precision_InverseKinematics
  \/ Precision_ForwardKinematics

KinSpec == KinInit /\ [][KinNext]_vars

(***************************************************************************)
(* Specifications of the point tests, and of everything that sends         *)
(* commands with a bit of their own: the rows of                           *)
(* trajectory_sender_grid_3.py and the point tests.                        *)
(***************************************************************************)
PointTests == {"test_grid_point", "test_single_point"}

\* Targets every fourth cell of the grid of the kinematics, and on and next
\* to the limits of the workspace.
PointTargets ==
  { q \in GridCoords \X GridCoords :
      q[1] % (4 * Pitch) = 0 /\ q[2] % (4 * Pitch) = 0 }
    \cup UNION { OnCircle(r) \cup OffCircle(r) :
                   r \in {GridL1 + GridL2, GridL1 - GridL2} }

\* The controller is connected and nothing was written yet.
PointTestInit ==
  /\ callee \in PointTests
  /\ args \in { [x |-> q[1], y |-> q[2], velocity |-> DEFAULT_VELOCITY] :
                  q \in PointTargets }
  /\ result = <<>>
  /\ returned = FALSE
  /\ GenIdle
  /\ DispatcherIdle

PointTestNext == TestGridPoint \/ TestSinglePoint

PointTestSpec == PointTestInit /\ [][PointTestNext]_vars

CommandInit == (Init /\ script = "grid3") \/ PointTestInit

CommandNext ==
  \/ PollEnable
  \/ WakeUp
  \/ Grid3Row
  \/ EndOfRows
  \/ FinalM4Write
  \/ PlcOperator
  \/ TestGridPoint
  \/ TestSinglePoint

CommandSpec == CommandInit /\ [][CommandNext]_vars

(***************************************************************************)
(* Properties of the dispatcher.                                           *)
(***************************************************************************)
WaitStates == {"wait", "sleep"}

Stopped == {"exit", "crash"}

\* The D100 batch writes issued so far, in order.
RegWrites == SelectSeq(log, LAMBDA e : e.dev = "D100")

WriteFailed == \E p \in 1..Len(log) : ~log[p].ok

\* The script ran to its end without printing "Error at row".
Done == pc = "exit" /\ errorRow = NoRow

\* Every row was written once, in file order, with its own values.
AllRowsSentInOrder ==
  /\ Len(RegWrites) = Len(rows)
  /\ \A k \in 1..Len(rows) :
       /\ RegWrites[k].row = k - 1
       /\ RegWrites[k].val = Grid3Data(rows[k])

\* The bit the script clears after its loop.
TriggerBit == IF script = "grid3" THEN "M4" ELSE "M3"

\* C1: in trajectory_sender_grid_3.py, when the D100 or M4 write of row k
\* fails, no register write of a later row is ever issued, exactly one write
\* follows the failure, the safe-state write M4 := 0, and the run is reported
\* as failed at row k.
C1_AbortOnWriteFailure ==
  script = "grid3" =>
    \A p \in 1..Len(log) :
      (~log[p].ok /\ log[p].row # NoRow) =>
        /\ \A q \in 1..Len(log) : log[q].dev = "D100" => log[q].row <= log[p].row
        /\ Len(log) <= p + 1
        /\ \A q \in (p + 1)..Len(log) :
             /\ log[q].dev = "M4"
             /\ log[q].row = NoRow
             /\ log[q].val = <<0>>
        /\ pc \in {"final"} \cup Stopped
        /\ (pc \in Stopped => Len(log) = p + 1)
        /\ errorRow = log[p].row

\* C1 witness: the write of row 1 of 3 failed, the safe-state write was made
\* and the script has ended.
C1_Witness ==
  /\ script = "grid3"
  /\ pc = "exit"
  /\ Len(rows) = 3
  /\ errorRow = 1
  /\ WriteFailed

\* C2: trajectory_sender_grid_3.py issues no write (D100 or M4), and is not in
\* its row loop, before a read of M3 has returned 1.
C2_NoWriteBeforeEnable ==
  script = "grid3" =>
    ((log # <<>> \/ pc \notin WaitStates) => m3_status = <<1>>)

\* C2 witness: the first register write is out although the controller's M3
\* has dropped again and a poll had read 0 before.
C2_Witness ==
  /\ script = "grid3"
  /\ log # <<>>
  /\ log[1].dev = "D100"
  /\ plcM3 = 0

\* C3: once M3 was observed set, unless a write fails the script reaches its
\* end, and by then every row was written exactly once, in file order.
C3_StreamsAllRowsInOrder ==
  (script = "grid3" /\ pc = "stream")
    ~> (WriteFailed \/ (Done /\ AllRowsSentInOrder))

\* C3 witness: a run of three rows is done and nothing failed.
C3_Witness ==
  /\ script = "grid3"
  /\ Done
  /\ ~WriteFailed
  /\ readErrors = 0
  /\ Len(rows) = 3
  /\ AllRowsSentInOrder

\* C4: when a dispatcher has stopped (all rows sent, or the loop broken by an
\* error), the last write it issued is the trigger bit := 0 (M4 in
\* trajectory_sender_grid_3.py, M3 in trajectory_sender.py), so it follows
\* every register write; if that write succeeded the bit is 0.
C4_LastWriteIsTriggerOff ==
  pc \in Stopped =>
    /\ log # <<>>
    /\ Last(log).dev = TriggerBit
    /\ Last(log).val = <<0>>
    /\ Last(log).row = NoRow
    /\ (pc = "exit" => Hardware[TriggerBit] = 0)

\* C4 witness: the pen was put down by a row, a later write failed, and the
\* script has ended.
C4_Witness ==
  /\ script = "grid3"
  /\ pc = "exit"
  /\ errorRow # NoRow
  /\ \E p \in 1..Len(log) :
       log[p].dev = "M4" /\ log[p].val = <<1>> /\ log[p].ok

C6_PenWrittenOnlyOnChange ==
  script = "grid3" =>
    \A p \in 1..Len(log) :
      (log[p].dev = "M4" /\ log[p].row > 0) =>
        Grid3Pen(RowAt(rows, log[p].row)) # Grid3Pen(RowAt(rows, log[p].row - 1))

\* C6 amended: the M4 bit is written for every row whose D100 batch write
\* succeeded, right after that batch and with the row's pen value, whether or
\* not the value changed; and for no other row.
C6_PenWrittenEveryRow ==
  script = "grid3" =>
    \A p \in 1..Len(log) :
      /\ (log[p].dev = "D100" /\ log[p].ok) =>
           /\ p < Len(log)
           /\ log[p + 1].dev = "M4"
           /\ log[p + 1].row = log[p].row
           /\ log[p + 1].val = <<Grid3Pen(RowAt(rows, log[p].row))>>
      /\ (log[p].dev = "M4" /\ log[p].row # NoRow) =>
           /\ p > 1
           /\ log[p - 1].dev = "D100"
           /\ log[p - 1].row = log[p].row
           /\ log[p - 1].ok

\* C6 witness: the M4 bit was written for a row whose pen value equals the
\* previous row's.
C6_Witness ==
  /\ script = "grid3"
  /\ \E p \in 1..Len(log) :
       /\ log[p].dev = "M4"
       /\ log[p].row > 0
       /\ log[p].ok
       /\ Grid3Pen(RowAt(rows, log[p].row)) = Grid3Pen(RowAt(rows, log[p].row - 1))

\* C7 as claimed: every dispatch run ends.
C7_EveryRunEnds == <>(pc \in Stopped)

\* C7 amended: the wait for M3 has no timeout: the dispatcher leaves it only
\* by a read that returns 1, for the row loop, with nothing written.
C7_WaitEndsOnlyOnEnable ==
  [][(pc \in WaitStates /\ pc' \notin WaitStates) =>
       (pc = "wait" /\ pc' = "stream" /\ m3_status' = <<1>> /\ log' = <<>>)]_vars

\* C7 witness: after failed reads and a read of 0 the dispatcher still waits.
C7_Witness ==
  /\ script = "grid3"
  /\ pc = "sleep"
  /\ readErrors >= 2
  /\ m3_status = <<0>>
  /\ plcM3 = 0

\* C8 as claimed: once the run is cancelled after streaming began, the
\* safe-state write (trigger bit := 0) is the last write issued.
C8_CancelEndsWithSafeState ==
  (script = "grid3" /\ pc = "killed" /\ log # <<>>) =>
    /\ Last(log).dev = "M4"
    /\ Last(log).row = NoRow
    /\ Last(log).val = <<0>>

(***************************************************************************)
(* Properties of the generator.                                            *)
(***************************************************************************)
\* The script is past the command generation.
Generated == gpc \in {"saved", "unsaved"}

\* A sample no pose of the arm reaches: farther than l1 + l2 from the
\* origin, nearer than |l1 - l2|, or the origin itself.
UnreachableSample(s) ==
  TooFar(s[1], s[2]) \/ TooNear(s[1], s[2]) \/ (s[1] = 0 /\ s[2] = 0)

\* The positions of the row before row n, those before the first being 0.
PrevPos(n) ==
  IF n = 1 THEN <<0, 0>> ELSE <<commands[n - 1].J1_Pos, commands[n - 1].J2_Pos>>

\* C9 as claimed: the command row of every unreachable sample repeats the
\* step positions of the row before it, with J1_Delta = J2_Delta = 0, and
\* there is a row for every sample.
C9_UnreachableHoldsPosition ==
  Generated =>
    /\ Len(commands) = Len(full_trajectory)
    /\ \A n \in 1..Len(commands) :
         UnreachableSample(full_trajectory[n]) =>
           /\ commands[n].J1_Pos = PrevPos(n)[1]
           /\ commands[n].J2_Pos = PrevPos(n)[2]
           /\ commands[n].J1_Delta = 0
           /\ commands[n].J2_Delta = 0

\* The waypoint at home with the pen up.
HomeUp == [x |-> Home[1], y |-> Home[2], pen |-> 0]

AllDeltasZero ==
  \A n \in 1..Len(commands) :
    commands[n].J1_Delta = 0 /\ commands[n].J2_Delta = 0

HomeSample == <<Home[1], Home[2], 0>>

\* C12: for every waypoint list, the empty one included, the first sample
\* of the full trajectory is the home position with the pen up, at every
\* step of the builder and after the command generation.
C12_FirstSampleIsHome ==
  gpc # "idle" =>
    /\ Len(full_trajectory) >= 1
    /\ full_trajectory[1] = HomeSample

\* A list that starts with a pen-down waypoint has been processed.
C12_Witness ==
  /\ Generated
  /\ Len(target_list) >= 1
  /\ target_list[1].pen = 1
  /\ target_list[1].x # Home[1]
  /\ Len(full_trajectory) > 1
  /\ full_trajectory[1] = HomeSample

\* C13: there is exactly one command row per trajectory sample, in sample
\* order (row n carries the pen of sample n), and row i (from 0) carries
\* Time = i * DT: the column starts at 0 and grows by exactly DT per row.
C13_OneRowPerSampleTimed ==
  Generated =>
    /\ Len(commands) = Len(full_trajectory)
    /\ \A n \in 1..Len(commands) :
         /\ commands[n].Time = (n - 1) * DT
         /\ commands[n].Pen = full_trajectory[n][3]
    /\ \A n \in 2..Len(commands) :
         commands[n].Time - commands[n - 1].Time = DT

\* Rows of a pen-up move followed by a pen-down move have been generated.
C13_Witness ==
  /\ Generated
  /\ Len(target_list) = 2
  /\ Len(commands) > 12
  /\ commands[1].Pen = 0
  /\ Last(commands).Pen = 1

\* The delta of row n of joint 1 and of joint 2, the positions before the
\* first row being 0.
SignedDelta(n) ==
  <<commands[n].J1_Pos - PrevPos(n)[1], commands[n].J2_Pos - PrevPos(n)[2]>>

\* C14: in every command row, for each joint, Delta is the magnitude of the
\* change of Pos from the row before, Dir is 1 exactly when the change is
\* >= 0 and 0 otherwise, and Hz is Delta / DT (in tenths of a hertz); so
\* Pos is the position of the row before plus the signed delta.
C14_DeltaDirHzFromPositions ==
  Generated =>
    \A n \in 1..Len(commands) :
      /\ commands[n].J1_Delta = Abs(SignedDelta(n)[1])
      /\ commands[n].J2_Delta = Abs(SignedDelta(n)[2])
      /\ commands[n].J1_Dir = (IF SignedDelta(n)[1] >= 0 THEN 1 ELSE 0)
      /\ commands[n].J2_Dir = (IF SignedDelta(n)[2] >= 0 THEN 1 ELSE 0)
      /\ commands[n].J1_Hz * DT = commands[n].J1_Delta * 10 * 1000
      /\ commands[n].J2_Hz * DT = commands[n].J2_Delta * 10 * 1000
      /\ commands[n].J1_Pos = PrevPos(n)[1]
           + (IF commands[n].J1_Dir = 1 THEN commands[n].J1_Delta
              ELSE 0 - commands[n].J1_Delta)
      /\ commands[n].J2_Pos = PrevPos(n)[2]
           + (IF commands[n].J2_Dir = 1 THEN commands[n].J2_Delta
              ELSE 0 - commands[n].J2_Delta)

\* Joint 1 has moved in both directions and has stood still.
C14_Witness ==
  /\ Generated
  /\ \E n \in 1..Len(commands) :
       commands[n].J1_Dir = 0 /\ commands[n].J1_Delta > 0
  /\ \E n \in 1..Len(commands) :
       commands[n].J1_Dir = 1 /\ commands[n].J1_Delta > 0
  /\ \E n \in 1..Len(commands) :
       commands[n].J1_Dir = 1 /\ commands[n].J1_Delta = 0

\* -(int(theta * STEPS_PER_RAD) - OFFSET_STEPS) for the pose of the sample s.
ExpectedStepsOf(pose) ==
  <<0 - (StepsJ1(pose[1]) - OFFSET_STEPS_1),
    0 - (StepsJ2(pose[2]) - OFFSET_STEPS_2)>>

ExpectedSteps(s) == ExpectedStepsOf(inverse_kinematics(s[1], s[2]))

\* C15: the row of every reachable sample carries
\* J_Pos = -(trunc(theta * steps_per_rad) - home_offset_steps) for each
\* joint; every sample at the home position has J1_Pos = J2_Pos = 0; and
\* the first row has positions 0, deltas 0 and Hz 0.
C15_PositionsRelativeToHome ==
  Generated =>
    /\ \A n \in 1..Len(commands) :
         ~UnreachableSample(full_trajectory[n]) =>
           <<commands[n].J1_Pos, commands[n].J2_Pos>>
             = ExpectedSteps(full_trajectory[n])
    /\ \A n \in 1..Len(commands) :
         (full_trajectory[n][1] = Home[1] /\ full_trajectory[n][2] = Home[2]) =>
           /\ commands[n].J1_Pos = 0
           /\ commands[n].J2_Pos = 0
    /\ commands[1].J1_Pos = 0
    /\ commands[1].J2_Pos = 0
    /\ commands[1].J1_Delta = 0
    /\ commands[1].J2_Delta = 0
    /\ commands[1].J1_Hz = 0
    /\ commands[1].J2_Hz = 0

\* The arm has left home and come back: the last row is at home again
\* after rows away from it.
C15_Witness ==
  /\ Generated
  /\ Len(target_list) = 2
  /\ Last(full_trajectory)[1] = Home[1]
  /\ Last(full_trajectory)[2] = Home[2]
  /\ Last(commands).J1_Pos = 0
  /\ Last(commands).J2_Pos = 0
  /\ \E n \in 1..Len(commands) :
       commands[n].J1_Pos # 0 /\ commands[n].J2_Pos # 0

\* The sample at the point p with the pen at pen.
SampleAt(p, pen) == <<p[1], p[2], pen>>

(***************************************************************************)
(* Properties of the trajectory generators.                                *)
(***************************************************************************)
\* math.dist(p, q) < 0.001, decided on the squares.
CloserThanEps(p, q) ==
  /\ Abs(q[1] - p[1]) < EpsUnits
  /\ Abs(q[2] - p[2]) < EpsUnits
  /\ (q[1] - p[1]) * (q[1] - p[1]) + (q[2] - p[2]) * (q[2] - p[2])
       < EpsUnits * EpsUnits

SegmentReturned ==
  returned /\ callee \in {"interpolate_travel", "interpolate_linear"}

\* C11: interpolate_travel and interpolate_linear return the empty list
\* whenever the distance from start_p to end_p is below 0.001 (distance 0
\* included), whatever the speed, the tick and the pen state.
C11_DegenerateSegmentIsEmpty ==
  (SegmentReturned /\ CloserThanEps(args.start_p, args.end_p)) =>
    result = <<>>

\* A travel segment of 0.0005 mm has returned no sample.
C11_Witness ==
  /\ returned
  /\ callee = "interpolate_travel"
  /\ args.start_p = Home
  /\ args.end_p = NearHome
  /\ result = <<>>

RECURSIVE Gcd(_, _)
Gcd(a, b) == IF b = 0 THEN a ELSE Gcd(b, a % b)

\* The greatest error of the profile value the arithmetic of the model
\* makes, in 1/One.
QuinticTol == One \div 2^14

\* |s - (10 k^3 n^2 - 15 k^4 n + 6 k^5) / n^5| <= QuinticTol / One for the
\* value s of 1/One and tau = k / n in lowest terms.
NearQuintic(s, k, n) ==
  LET n5 == n * n * n * n * n
      num == 10 * k * k * k * n * n - 15 * k * k * k * k * n
               + 6 * k * k * k * k * k
      diff == WSub(WMul(s, n5), WMul(One, num))
      tol == WMul(QuinticTol, n5)
  IN  /\ ~WNegative(WSub(tol, diff))
      /\ ~WNegative(WAdd(tol, diff))

\* C20: get_quintic_scalar(t, T) is 0 for t <= 0, 1 for t >= T and
\* 10 tau^3 - 15 tau^4 + 6 tau^5 with tau = t / T in between; on the tick
\* grid its values lie in [0, 1] and each is greater than the value one tick
\* earlier.
C20_QuinticProfile ==
  (returned /\ callee = "get_quintic_scalar") =>
    /\ args.t <= 0 => result = 0
    /\ args.t >= args.T => result = One
    /\ (0 < args.t /\ args.t < args.T) =>
         NearQuintic(result, args.t \div Gcd(args.t, args.T),
                     args.T \div Gcd(args.t, args.T))
    /\ 0 <= result
    /\ result <= One
    /\ \A dt \in Ticks :
         (args.t % dt = 0 /\ args.T % dt = 0 /\ dt <= args.t
            /\ args.t <= args.T) =>
           get_quintic_scalar(args.t - dt, args.T) < result

\* The profile has been evaluated strictly inside a move.
C20_Witness ==
  /\ returned
  /\ callee = "get_quintic_scalar"
  /\ 0 < args.t
  /\ args.t < args.T
  /\ 0 < result
  /\ result < One

TargetStep ==
  gpc = "targets" /\ tnext < Len(target_list) /\ tnext' = tnext + 1

\* The waypoint of the iteration and its position.
ThisTarget == target_list[tnext + 1]

ThisTargetPos == <<ThisTarget.x, ThisTarget.y>>

\* The iteration is not ended by "continue".
NotSkipped == ThisTarget.pen = 0 \/ ~CloserThanEps(current, ThisTargetPos)

\* The samples the step adds to full_trajectory, what was there being kept.
Appended ==
  SubSeq(full_trajectory', Len(full_trajectory) + 1, Len(full_trajectory'))

KeepsSamples ==
  /\ Len(full_trajectory') >= Len(full_trajectory)
  /\ SubSeq(full_trajectory', 1, Len(full_trajectory)) = full_trajectory

\* C23: for every pen-up waypoint the loop appends int(0.2 / DT) dwell
\* samples at the current position (the start of the segment) with the pen
\* up, and right after them the move samples of the waypoint, of which there
\* is at least one: no move sample comes before a dwell sample.
C23_PenUpDwellBeforeMove ==
  [][(TargetStep /\ ThisTarget.pen = 0) =>
       LET wait_steps == PEN_UP_DELAY_MS \div DT
           moves == interpolate_travel(current, ThisTargetPos, TRAVEL_SPEED,
                                       DT, 0)
       IN  /\ KeepsSamples
           /\ Len(Appended) > wait_steps
           /\ \A k \in 1..wait_steps : Appended[k] = SampleAt(current, 0)
           /\ SubSeq(Appended, wait_steps + 1, Len(Appended))
                = IF moves = <<>> THEN <<SampleAt(ThisTargetPos, 0)>>
                  ELSE moves]_vars

\* A line was drawn to 5 mm below home and a pen-up waypoint 0.3 mm to the
\* right was processed: ten samples at the end of the line with the pen up,
\* then the five of the move.
C23_Witness ==
  /\ gpc = "targets"
  /\ tnext = 2
  /\ target_list[1] = [x |-> Below[1], y |-> Below[2], pen |-> 1]
  /\ target_list[2] = [x |-> BelowRight[1], y |-> BelowRight[2], pen |-> 0]
  /\ Len(full_trajectory) = 1 + PenDownWait + 8 + 10 + 5
  /\ \A k \in 1..10 :
       full_trajectory[1 + PenDownWait + 8 + k] = SampleAt(Below, 0)
  /\ Last(full_trajectory)[1] > Below[1]

\* C24: for every pen-down waypoint that is not skipped the loop appends
\* int(PEN_DOWN_DELAY / DT) dwell samples at the current position with the
\* pen down, and then the draw samples, if the last sample so far has the
\* pen up; if it has the pen down, the draw samples alone.
C24_PenDownDwellOnlyAfterPenUp ==
  [][(TargetStep /\ ThisTarget.pen = 1 /\ NotSkipped) =>
       LET wait_steps == (PEN_DOWN_DELAY * 1000) \div DT
           moves == interpolate_linear(current, ThisTargetPos, DRAW_SPEED,
                                       DT, 1)
       IN  /\ KeepsSamples
           /\ Last(full_trajectory)[3] = 0 =>
                /\ Len(Appended) = wait_steps + Len(moves)
                /\ \A k \in 1..wait_steps :
                     Appended[k] = SampleAt(current, 1)
                /\ SubSeq(Appended, wait_steps + 1, Len(Appended)) = moves
           /\ Last(full_trajectory)[3] = 1 => Appended = moves]_vars

\* Two pen-down waypoints in a row: the dwell before the first line, none
\* before the second, which is the one sample at its end.
C24_Witness ==
  /\ gpc = "targets"
  /\ tnext = 2
  /\ target_list[1] = [x |-> Below[1], y |-> Below[2], pen |-> 1]
  /\ target_list[2] = [x |-> BelowRight[1], y |-> BelowRight[2], pen |-> 1]
  /\ Len(full_trajectory) = 1 + PenDownWait + 8 + 1
  /\ full_trajectory[1 + PenDownWait] = SampleAt(Home, 1)
  /\ full_trajectory[1 + PenDownWait + 8] = SampleAt(Below, 1)
  /\ Last(full_trajectory) = SampleAt(BelowRight, 1)

\* C25: a pen-down waypoint within 0.001 mm of the current position is
\* skipped: the iteration leaves full_trajectory (no dwell sample, no move
\* sample) and the current position as they are.
C25_CoincidentPenDownIsSkipped ==
  [][(TargetStep /\ ThisTarget.pen = 1
        /\ CloserThanEps(current, ThisTargetPos)) =>
       (full_trajectory' = full_trajectory /\ current' = current)]_vars

\* A pen-down waypoint half a micrometre from home came first and was
\* skipped: the trajectory is the home sample and the position is home.
C25_Witness ==
  /\ gpc = "targets"
  /\ tnext = 1
  /\ target_list[1] = [x |-> NearHome[1], y |-> NearHome[2], pen |-> 1]
  /\ full_trajectory = <<HomeSample>>
  /\ current = Home

\* The current position after the first k waypoints: the position of the
\* last of them that was not skipped, home if there is none.
RECURSIVE CurrentAfter(_)
CurrentAfter(k) ==
  IF k = 0 THEN Home
  ELSE LET target == target_list[k]
           before == CurrentAfter(k - 1)
       IN  IF target.pen = 1 /\ CloserThanEps(before, <<target.x, target.y>>)
           THEN before
           ELSE <<target.x, target.y>>

\* C26: the loop handles the waypoints one by one in the order of the list:
\* an iteration keeps the samples of the earlier waypoints where they are
\* and adds its own after them, and after a waypoint that is not skipped the
\* current position is that waypoint's target, so that each segment starts
\* at the target of the last waypoint not skipped before it.
C26_WaypointsInOrder ==
  [][TargetStep =>
       /\ target_list' = target_list
       /\ KeepsSamples
       /\ current = CurrentAfter(tnext)
       /\ NotSkipped =>
            /\ current' = ThisTargetPos
            /\ Appended =
                 IF ThisTarget.pen = 0
                 THEN TravelSegment(CurrentAfter(tnext), ThisTargetPos)
                 ELSE DrawSegment(full_trajectory, CurrentAfter(tnext),
                                  ThisTargetPos)
       /\ current' = CurrentAfter(tnext + 1)]_vars

\* Two waypoints were processed: the line to the first, then the move from
\* there to the second; the position is the second.
C26_Witness ==
  /\ gpc = "targets"
  /\ tnext = 2
  /\ target_list[1] = [x |-> BelowRight[1], y |-> BelowRight[2], pen |-> 1]
  /\ target_list[2] = [x |-> Below[1], y |-> Below[2], pen |-> 0]
  /\ current = Below
  /\ \E k \in 2..Len(full_trajectory) :
       /\ full_trajectory[k - 1] = SampleAt(BelowRight, 1)
       /\ full_trajectory[k] = SampleAt(BelowRight, 0)

\* C28 as claimed: after any waypoint that is not skipped, travel or draw,
\* the last sample of the trajectory is at the waypoint's target, which is
\* the current position.
C28_LastSampleAtTarget ==
  [][(TargetStep /\ NotSkipped) =>
       /\ current' = ThisTargetPos
       /\ Last(full_trajectory')[1] = ThisTargetPos[1]
       /\ Last(full_trajectory')[2] = ThisTargetPos[2]]_vars

(***************************************************************************)
(* Properties of the kinematics.                                           *)
(***************************************************************************)
\* inverse_kinematics of one of the scripts has returned.
PoseReturned == returned /\ callee \in KinCallees

\* The pose is one the caller goes on with: not None where the caller
\* tests "t1 is None", is_valid / reachable where it tests that.
ReportedReachable(s, pose) ==
  IF s \in {"IK3", "test_connrct_PLC"} THEN pose # None ELSE pose[3]

\* The target is farther than l1 + l2 from the origin or nearer than
\* |l1 - l2|, for the arm of the script called.
OutOfWorkspace ==
  \/ ArmTooFar(Links(callee)[1], Links(callee)[2], args.x, args.y)
  \/ ArmTooNear(Links(callee)[1], Links(callee)[2], args.x, args.y)

\* C16 as claimed: for every target out of the workspace, inverse
\* kinematics reports the point as unreachable, in every implementation.
C16_OutOfReachIsReported ==
  (PoseReturned /\ OutOfWorkspace) => ~ReportedReachable(callee, result[1])

\* The greatest distance, along each axis, between a target and the
\* position forward_kinematics gives for its pose that the rounding of the
\* model's arithmetic makes: 0.001 mm.
RoundTripTol == EpsUnits

\* The position forward_kinematics returned: the last two of (xe, ye, xf,
\* yf), or (x, y).
Tip(position) ==
  <<position[Len(position) - 1], position[Len(position)]>>

C18_OriginIsUnreachable ==
  (PoseReturned /\ args.x = 0 /\ args.y = 0) =>
    ~ReportedReachable(callee, result[1])

\* theta2 of a pose, in angle units.
Theta2(s, pose) ==
  IF s \in {"IK3", "test_connrct_PLC"} THEN pose[2] ELSE Radians(pose[2])

\* C19: every pose inverse kinematics returns is elbow-up: theta2 lies in
\* [0, pi] and sin(theta2) >= 0; no input gives theta2 < 0.
C19_ElbowUp ==
  (PoseReturned /\ result[1] # None) =>
    /\ 0 <= Theta2(callee, result[1])
    /\ Theta2(callee, result[1]) <= HalfTurn
    /\ CosSin(Theta2(callee, result[1]))[2] >= 0
    /\ callee \in {"scara_grid_test", "scara_precision_tester"} =>
         /\ 0 <= result[1][2]
         /\ result[1][2] <= 180 * DegreeScale

\* The generator's inverse_kinematics has returned a bent elbow.
C19_Witness ==
  /\ PoseReturned
  /\ callee = "IK3"
  /\ 0 < result[1][2]
  /\ result[1][2] < HalfTurn

(***************************************************************************)
(* Properties of the commands sent to the controller.                      *)
(***************************************************************************)
\* The write of a bit that belongs to one command (a row, a point test),
\* not the one after the row loop.
CommandBit(e) == e.dev \in {"M3", "M4"} /\ e.row # NoRow

\* C27: in the rows of trajectory_sender_grid_3.py, in send_motor_commands
\* and in send_robot_command, the write before the pen / trigger bit of a
\* command is the one batch of the command's four step and velocity values,
\* and it succeeded; after a batch write that failed no bit is written for
\* that command.
C27_BatchBeforeBit ==
  \A p \in 1..Len(log) :
    /\ CommandBit(log[p]) =>
         /\ p > 1
         /\ log[p - 1].dev = "D100"
         /\ log[p - 1].row = log[p].row
         /\ Len(log[p - 1].val) = 4
         /\ log[p - 1].ok
    /\ (log[p].dev = "D100" /\ ~log[p].ok) =>
         \A q \in 1..Len(log) : q # p => log[q].row # log[p].row

\* The batch write of send_robot_command failed: it is the only write of
\* the call, and the test reports that the command was not sent.
C27_Witness ==
  /\ callee = "test_single_point"
  /\ returned
  /\ Len(log) = 1
  /\ log[1].dev = "D100"
  /\ ~log[1].ok
  /\ result[1].error_message = "Failed to send robot command"

\* inverse_kinematics of the script of the point test called gives the
\* target as out of reach.
IKReportsUnreachable ==
  IF callee = "test_grid_point"
  THEN ~GridTest_inverse_kinematics(args.x, args.y)[3]
  ELSE ~Precision_inverse_kinematics(args.x, args.y)[3]

\* What the point test returned says that it failed.
ReturnedFailure ==
  IF callee = "test_grid_point" THEN result = <<FALSE>>
  ELSE ~result[1].success /\ ~result[1].reachable

\* C29: test_grid_point and test_single_point issue no write, of the
\* registers or of the trigger M3, for a target inverse kinematics reports
\* as unreachable, and return failure.
C29_NoWriteForUnreachable ==
  (callee \in PointTests /\ returned /\ IKReportsUnreachable) =>
    /\ log = <<>>
    /\ plcD100 = <<>>
    /\ plcM3 = 0
    /\ ReturnedFailure

\* test_grid_point has returned for a target half a micrometre beyond the
\* reach of the arm, with nothing written.
C29_Witness ==
  /\ callee = "test_grid_point"
  /\ returned
  /\ args.x = GridL1 + GridL2 + 1
  /\ args.y = 0
  /\ log = <<>>
  /\ result = <<FALSE>>

\* The writes M3 := 1 and M3 := 0.
TriggerOn(e) == e.dev = "M3" /\ e.val = <<1>>

TriggerOff(e) == e.dev = "M3" /\ e.val = <<0>>

TriggerOffWrites == { p \in 1..Len(log) : TriggerOff(log[p]) }

\* C30: trajectory_sender.py writes M3 := 1 only in the iteration of a row
\* whose J1 or J2 position is not 0 and after read_bit(M3) replied 0 in that
\* iteration; it writes M3 := 0 in no iteration, and once the row loop has
\* ended, by the end of the rows or by a failed read or write, it does so,
\* exactly once, as its last write.
C30_TriggerOnlyForMovingRows ==
  /\ [][script = "sender" =>
         \A p \in (Len(log) + 1)..Len(log') :
           TriggerOn(log'[p]) =>
             /\ pc = "stream"
             /\ i < Len(rows)
             /\ log'[p].row = i
             /\ Movement(RowAt(rows, i))
             /\ m3_status' = <<0>>
             /\ plcM3 = 0]_vars
  /\ [](script = "sender" =>
         /\ pc \notin Stopped => TriggerOffWrites = {}
         /\ pc \in Stopped =>
              /\ TriggerOffWrites = {Len(log)}
              /\ Last(log).row = NoRow
              /\ (pc = "exit" => plcM3 = 0))
  /\ (script = "sender" /\ pc = "final")
       ~> (pc \in Stopped /\ TriggerOff(Last(log)))

\* A row set M3, the register write of a later row failed, and the script
\* has ended with M3 := 0.
C30_Witness ==
  /\ script = "sender"
  /\ pc = "exit"
  /\ errorRow > 0
  /\ \E p \in 1..Len(log) : TriggerOn(log[p]) /\ log[p].ok /\ log[p].row = 0
  /\ TriggerOff(Last(log))
  /\ plcM3 = 0

====
